---- MODULE Spec2Model ----
(***************************************************************************)
(* A model of the Redis-compatible server of this repository: the wire     *)
(* codec's byte accounting, the master's replication pipeline (log,        *)
(* fan-out, replica registry, PSYNC hand-off, WAIT), the replica's inbound *)
(* replication loop, and the blocking stream read.                         *)
(*                                                                         *)
(* Strings are sequences of one-character strings, so that lengths,        *)
(* upper-casing, formatting and parsing are computed as the code computes  *)
(* them.  usize arithmetic is the release profile's (wrapping).            *)
(***************************************************************************)
EXTENDS Integers, Sequences, FiniteSets, TLC

\* Bounds of the model.
MaxMut == 2          \* SET requests of the fan-out scenario
MaxWaitMut == 2      \* SET requests of the WAIT scenario
MaxWaits == 2        \* WAIT requests of the WAIT scenario
MaxAttachedMut == 1  \* SET requests of the scenario with the replicas attached
MaxAttachedWaits == 1 \* WAIT requests of the scenario with the replicas attached
MaxAdds == 2         \* XADD requests of the stream scenario
MaxReads == 1        \* XREAD requests of the stream scenario
MaxStoreRequests == 2 \* requests of the store scenario
MaxTicks == 1        \* steps of the clock in the store scenario
MaxReplicaSets == 2  \* SET requests of the replica scenario
MaxAsks == 1         \* requests of the replica's client
MaxHandshakeSets == 2 \* SET requests of the handshake scenario
MaxItems == 2               \* items of an array of the codec scenario
MaxFanMut == 2              \* SET requests of the registry scenario
MaxMultiAdds == 2           \* XADD requests of the two-stream scenario
MaxMultiReads == 2          \* XREAD requests of the two-stream scenario
MaxPsyncMut == 1            \* SET requests of the PSYNC scenario
MaxListenKeys == 2      \* keys named in one add_listener
MaxSessionFaults == 2       \* errors of the replication session scenario
MaxSessionFrames == 2       \* frames the peer sends after the snapshot
MaxRaceSets == 2            \* SET requests of the two-writer scenario
MaxConvergeRequests == 2    \* requests of the convergence scenario
MaxConvergeTicks == 1       \* clock steps of the convergence scenario
MaxReplayFrames == 2        \* frames of the log that is replayed
MaxTagRequests == 1         \* replica-side requests of the tags scenario

Clients == {"c1", "c2"}          \* client connections of the master
Links == {"r1", "r2"}            \* connections opened by replicas
ReplicaClients == {"q1"}         \* client connections of the replica r1
Conns == Clients \cup Links \cup ReplicaClients

None == [some |-> FALSE]
Some(v) == [some |-> TRUE, v |-> v]

----------------------------------------------------------------------------
\* Strings.

LowerChars == <<"a","b","c","d","e","f","g","h","i","j","k","l","m",
                "n","o","p","q","r","s","t","u","v","w","x","y","z">>
UpperChars == <<"A","B","C","D","E","F","G","H","I","J","K","L","M",
                "N","O","P","Q","R","S","T","U","V","W","X","Y","Z">>
DigitChars == <<"0","1","2","3","4","5","6","7","8","9">>

UpperChar(ch) ==
  IF \E i \in 1..Len(LowerChars) : LowerChars[i] = ch
  THEN UpperChars[CHOOSE i \in 1..Len(LowerChars) : LowerChars[i] = ch]
  ELSE ch

to_uppercase(s) == [i \in 1..Len(s) |-> UpperChar(s[i])]

IsDigit(ch) == \E i \in 1..10 : DigitChars[i] = ch
DigitVal(ch) == (CHOOSE i \in 1..10 : DigitChars[i] = ch) - 1

\* format!("{}", n) of an unsigned integer
RECURSIVE FormatNat(_)
FormatNat(n) ==
  IF n < 10 THEN <<DigitChars[n + 1]>>
  ELSE FormatNat(n \div 10) \o <<DigitChars[(n % 10) + 1]>>

\* format!("{}", n) of a signed integer
FormatInt(n) == IF n < 0 THEN <<"-">> \o FormatNat(0 - n) ELSE FormatNat(n)

RECURSIVE DigitsValue(_)
DigitsValue(s) ==
  IF Len(s) = 0 THEN 0
  ELSE 10 * DigitsValue(SubSeq(s, 1, Len(s) - 1)) + DigitVal(s[Len(s)])

\* str::parse::<usize>() / parse::<u64>(): Some(value) or None on an error
ParseNat(s) ==
  IF Len(s) > 0 /\ \A i \in 1..Len(s) : IsDigit(s[i])
  THEN Some(DigitsValue(s)) ELSE None

\* str::parse::<i64>()
ParseInt(s) ==
  IF Len(s) > 1 /\ s[1] = "-"
  THEN LET m == ParseNat(SubSeq(s, 2, Len(s)))
       IN IF m.some THEN Some(0 - m.v) ELSE None
  ELSE ParseNat(s)

----------------------------------------------------------------------------
\* The wire value (enum RESP) and the codec's byte counts.

RString(s) == [t |-> "String", s |-> s]
RError(s) == [t |-> "Error", s |-> s]
RInt(n) == [t |-> "Int", n |-> n]
RBulk(s) == [t |-> "Bulk", s |-> s]
RArray(a) == [t |-> "Array", a |-> a]
RNull == [t |-> "Null"]
RFile(n) == [t |-> "File", len |-> n]

RDB_EMPTY_LEN == 88
empty_rdb == RFile(RDB_EMPTY_LEN)

RECURSIVE SumSeq(_)
SumSeq(ns) == IF Len(ns) = 0 THEN 0 ELSE ns[1] + SumSeq(Tail(ns))

\* bytes_written of write_message: the bytes encode_message writes for m
RECURSIVE EncodedSize(_)
EncodedSize(m) ==
  CASE m.t = "String" -> 1 + Len(m.s) + 2
    [] m.t = "Error"  -> 1 + Len(m.s) + 2
    [] m.t = "Int"    -> 1 + Len(FormatInt(m.n)) + 2
    [] m.t = "Bulk"   -> 1 + Len(FormatNat(Len(m.s))) + 2 + Len(m.s) + 2
    [] m.t = "Null"   -> 5
    [] m.t = "Array"  -> 1 + Len(FormatNat(Len(m.a))) + 2
                           + SumSeq([i \in 1..Len(m.a) |-> EncodedSize(m.a[i])])
    [] m.t = "File"   -> 1 + Len(FormatNat(m.len)) + 2 + m.len

\* full_len of decode_message: the bytes it consumes when it reads m
\* (the header line with its CRLF, a bulk's payload and its CRLF, the items)
\* (a faulty variant: the CRLF after the payload is not counted)
DecodedBulkLenNoCrlf(line_len, len) == line_len + len
DecodedBulkLen(line_len, len) == line_len + (len + 2)
RECURSIVE DecodedSize(_)
DecodedSize(m) ==
  LET line_len(body) == 1 + Len(body) + 2
  IN CASE m.t = "String" -> line_len(m.s)
       [] m.t = "Error"  -> line_len(m.s)
       [] m.t = "Int"    -> line_len(FormatInt(m.n))
       [] m.t = "Bulk"   -> DecodedBulkLen(line_len(FormatNat(Len(m.s))), Len(m.s))
       [] m.t = "Null"   -> line_len(<<"-", "1">>)
       [] m.t = "Array"  -> line_len(FormatNat(Len(m.a)))
                              + SumSeq([i \in 1..Len(m.a) |-> DecodedSize(m.a[i])])

\* the sum of the encoded sizes of a sequence of frames
LogSize(frames) == SumSeq([i \in 1..Len(frames) |-> EncodedSize(frames[i])])

----------------------------------------------------------------------------
\* The command model.

PING == <<"P","I","N","G">>
SET == <<"S","E","T">>
GET == <<"G","E","T">>
XADD == <<"X","A","D","D">>
XREAD == <<"X","R","E","A","D">>
WAIT == <<"W","A","I","T">>
INFO == <<"I","N","F","O">>
PSYNC == <<"P","S","Y","N","C">>
REPLCONF == <<"R","E","P","L","C","O","N","F">>
GETACK == <<"G","E","T","A","C","K">>
ACK == <<"A","C","K">>
PX == <<"P","X">>
OK == <<"O","K">>
TYPE == <<"T","Y","P","E">>
KEYS == <<"K","E","Y","S">>
XRANGE == <<"X","R","A","N","G","E">>
ECHO == <<"E","C","H","O">>
CONFIG == <<"C","O","N","F","I","G">>
Tags == {PING, ECHO, SET, GET, TYPE, KEYS, PSYNC, INFO, REPLCONF, WAIT, CONFIG, XADD, XRANGE, XREAD}

\* Command::is_mutating
\* (a faulty variant: no command is mutating)
is_mutating_never(cmd) == FALSE
\* (a faulty variant: only SET is mutating)
is_mutating_set_only(cmd) == cmd = SET
is_mutating(cmd) == cmd \in {SET, XADD}

\* Command::parse_command / TryFrom<RESP> for CommandRequest
parse_command(m) ==
  IF /\ m.t = "Array"
     /\ Len(m.a) >= 1
     /\ \A i \in 1..Len(m.a) : m.a[i].t = "Bulk"
     /\ to_uppercase(m.a[1].s) \in Tags
  THEN [ok |-> TRUE, cmd |-> to_uppercase(m.a[1].s),
        params |-> [i \in 1..(Len(m.a) - 1) |-> m.a[i + 1].s]]
  ELSE [ok |-> FALSE]

Request(words) == RArray([i \in 1..Len(words) |-> RBulk(words[i])])

----------------------------------------------------------------------------
\* The store (KVStore): string entries with an expiry, stream entries.

Keys == {<<"k">>, <<"s">>}
Absent == [kind |-> "absent"]

\* StoredValue::from_string
from_string(value, valid_until) ==
  [kind |-> "string", value |-> value, valid_until |-> valid_until]

\* extract_option_string: the parameter after the first one that equals the
\* option name in upper case; "panic" when that parameter does not exist
extract_option_string(params, option_name) ==
  LET hits == {i \in 1..Len(params) : to_uppercase(params[i]) = to_uppercase(option_name)}
  IN IF hits = {} THEN [res |-> "none"]
     ELSE LET i == CHOOSE j \in hits : \A h \in hits : j <= h
          IN IF i + 1 <= Len(params) THEN [res |-> "some", v |-> params[i + 1]]
             ELSE [res |-> "panic"]

\* extract_option_u64
extract_option_u64(params, option_name) ==
  LET value == extract_option_string(params, option_name)
  IN IF value.res = "some"
     THEN (IF ParseNat(value.v).some THEN [res |-> "some", v |-> ParseNat(value.v).v]
                                     ELSE [res |-> "err"])
     ELSE value

\* RedisServer::handle_command, Command::SET: the outcome and the new store
handle_set(st, params, clock) ==
  IF Len(params) >= 2
  THEN LET px == extract_option_u64(params, PX)
       IN IF px.res \in {"err", "panic"} THEN [res |-> px.res, store |-> st]
          ELSE [res |-> "ok",
                store |-> [st EXCEPT ![params[1]] =
                             from_string(params[2],
                                         IF px.res = "some" THEN Some(clock + px.v) ELSE None)],
                responses |-> <<RString(OK)>>]
  ELSE [res |-> "err", store |-> st]

----------------------------------------------------------------------------
\* State.

VARIABLES
  todo,               \* the requests the clients have yet to send, by kind
  slots,              \* the notifier slots of the blocked stream reads
  now,                \* the wall clock, in milliseconds
  store,              \* the master's KVStore
  log, log_bytes,     \* the master's LogStore
  replicas,           \* MasterServer.replicas: the registry, a sequence of
                      \* [conn, offset] (the sender is the link's outbox)
  regLock,            \* the holder of the registry RwLock, or "free"
  pc,                 \* the position of the master's thread of each connection
  req,                \* the request message a connection's thread is handling
  responses,          \* the responses of its last request (sent when pc is back to "idle")
  local,              \* the thread's locals of send_replicas / request_ack
  wids,               \* WAIT requests received so far
  rx,                 \* the reply channel of a connection's request_ack
  outbox,             \* the mpsc channel of each replica session
  cur,                \* the Command message a replica session is waiting an ACK for
  down, up,           \* bytes in flight on a link: master to replica, replica to master
  written,            \* every value the master has written on a link
  enq,                \* the frames enqueued as Replicate messages for a link
  psync_n,            \* the length of the log when the link's PSYNC was handled
  rpc,                \* the position of the replica's replication thread
  replicated_offset,  \* ReplicaConnection.replicated_offset
  rstore,             \* the replica's KVStore
  rlog_bytes,         \* the replica's LogStore.log_bytes
  consumed,           \* the frames the replica has read in its replication loop
  acks,               \* the ACK replies the replica has sent: [offset, at]
  hs,                 \* the transcript of each link's handshake before the PSYNC
  codec,              \* the input of a function applied on its own, and then its result
  replica_binding,    \* MasterConnection.replica_binding of each link's connection
  held,               \* the guards alive on each lock: [t, m] for thread t, mode "r" or "w"
  lk                  \* each thread's place in the lock operations of its handler

vars == <<todo, slots, now, store, log, log_bytes, replicas, regLock, pc, req, responses, local,
          wids, rx, outbox, cur, down, up, written, enq, psync_n, rpc,
          replicated_offset, rstore, rlog_bytes, consumed, acks, hs, codec, replica_binding, held, lk>>

masterStore == <<now, store>>
masterLog == <<log, log_bytes>>
linkVars == <<outbox, cur, down, up, written, enq, psync_n>>
replicaVars == <<rpc, replicated_offset, rstore, rlog_bytes, consumed, acks>>
waitVars == <<local, wids, rx>>
lockVars == <<held, lk>>
auxVars == <<hs, codec, replica_binding, lockVars>>

master_replid ==
  <<"8","3","7","1","b","4","f","b","1","1","5","5","b","7","1","f","4","a","0","4","d","3","e","1","b",
    "c","3","e","1","8","c","4","a","9","9","0","d","e","e","p">>
NoLocal == [expected_replicas |-> 0, timeout |-> 0, master_offset |-> 0, replicated |-> 0,
            requested |-> {}, counted |-> <<>>, id |-> 0, failed |-> 0, key_id_pairs |-> <<>>, listener |-> 0,
            log_len |-> 0]
Workload(sets, waits, adds, reads) ==
  [sets |-> sets, waits |-> waits, adds |-> adds, reads |-> reads]
NoReq == RNull
NoCodec == [step |-> "none"]

\* The locks: MasterServer.replicas ("registry"), Redis.log_store ("log"),
\* Redis.store ("store"), and for each blocked XREAD the Mutex of its own
\* notifier slot (named after the thread that made it).  The threads: one
\* connection's thread per handler that takes locks.
Waiters == {"xread1", "xread2"}
Threads == {"xadd", "wait", "psync", "info"} \cup Waiters
LockNames == {"registry", "log", "store"} \cup Waiters
Idle == [prog |-> <<>>, at |-> 0, seen |-> {}, listening |-> FALSE, event |-> FALSE, asleep |-> FALSE]
\* no guard alive, every thread between two handlers
Unlocked ==
  /\ held = [l \in LockNames |-> {}]
  /\ lk = [t \in Threads |-> Idle]
\* the scenarios that take each handler as one step leave the locks out
NoLocks ==
  /\ held = <<>>
  /\ lk = <<>>

\* the state after construction, the wall clock at some time: an empty
\* master, no connection has sent anything
FreshAt(clock) ==
  /\ slots = <<>>
  /\ now = clock
  /\ store = [k \in Keys |-> Absent]
  /\ log = <<>>
  /\ log_bytes = 0
  /\ replicas = <<>>
  /\ regLock = "free"
  /\ pc = [c \in Conns |-> "idle"]
  /\ req = [c \in Conns |-> NoReq]
  /\ responses = [c \in Conns |-> <<>>]
  /\ local = [c \in Clients |-> NoLocal]
  /\ wids = 0
  /\ rx = [c \in Clients |-> <<>>]
  /\ outbox = [r \in Links |-> <<>>]
  /\ cur = [r \in Links |-> NoReq]
  /\ down = [r \in Links |-> <<>>]
  /\ up = [r \in Links |-> <<>>]
  /\ written = [r \in Links |-> <<>>]
  /\ enq = [r \in Links |-> <<>>]
  /\ psync_n = [r \in Links |-> 0]
  /\ rpc = [r \in Links |-> "start"]
  /\ replicated_offset = [r \in Links |-> 0]
  /\ rstore = [r \in Links |-> [k \in Keys |-> Absent]]
  /\ rlog_bytes = [r \in Links |-> 0]
  /\ consumed = [r \in Links |-> <<>>]
  /\ acks = [r \in Links |-> <<>>]
  /\ hs = [r \in Links |-> <<>>]
  /\ NoLocks
  /\ codec = NoCodec
  /\ replica_binding = [r \in Links |-> None]

Fresh == FreshAt(0)

----------------------------------------------------------------------------
\* The master: a mutating request (MasterConnection::handle_message and
\* send_replicas).

Replicate(message) == [kind |-> "Replicate", message |-> message]
Command(message, c, id, replica_index, timeout) ==
  [kind |-> "Command", message |-> message, tx |-> c, id |-> id,
   replica_index |-> replica_index, timeout |-> timeout]

\* the receiver of a replica session's channel exists: the session thread is
\* inside master_replica_connection's loop
SessionAlive(r) == pc[r] \in {"drain", "cmd_read"}

ValueOf(c) == IF c = "c1" THEN <<"a">> ELSE <<"b">>

\* handle_message reads a SET request and runs handle_command on it
ClientSet(c) ==
  /\ pc[c] = "idle"
  /\ todo.sets > 0
  /\ todo' = [todo EXCEPT !.sets = @ - 1]
  /\ LET message == Request(<<SET, <<"k">>, ValueOf(c)>>)
         parsed == parse_command(message)
         done == handle_set(store, parsed.params, now)
     IN /\ parsed.ok /\ parsed.cmd = SET /\ done.res = "ok"
        /\ store' = done.store
        /\ req' = [req EXCEPT ![c] = message]
        /\ responses' = [responses EXCEPT ![c] = done.responses]
        /\ pc' = [pc EXCEPT ![c] = IF is_mutating(parsed.cmd) THEN "append" ELSE "idle"]
  /\ UNCHANGED <<auxVars, slots, now, masterLog, replicas, regLock, waitVars, linkVars, replicaVars>>

\* send_replicas: append to the command log, under the log lock
LogAppend(c) ==
  /\ pc[c] = "append"
  /\ log' = Append(log, req[c])
  /\ pc' = [pc EXCEPT ![c] = "fanout"]
  /\ UNCHANGED <<auxVars, todo, slots, masterStore, log_bytes, replicas, regLock, req, responses, waitVars,
                 linkVars, replicaVars>>

\* the (0-based) indexes of the replicas whose send fails, in ascending order
RECURSIVE failed_indexes(_, _)
failed_indexes(reps, i) ==
  IF i > Len(reps) THEN <<>>
  ELSE (IF SessionAlive(reps[i].conn) THEN <<>> ELSE <<i - 1>>) \o failed_indexes(reps, i + 1)

\* Vec::remove at a 0-based index
remove(v, i) == SubSeq(v, 1, i) \o SubSeq(v, i + 2, Len(v))

\* (a faulty variant: the index is not shifted by the number already removed)
RECURSIVE remove_failed_unshifted(_, _, _)
remove_failed_unshifted(reps, failed, items_removed) ==
  IF items_removed >= Len(failed) THEN reps
  ELSE remove_failed_unshifted(remove(reps, failed[items_removed + 1]), failed, items_removed + 1)

\* for (items_removed, i) in failed_indexes.iter().enumerate() { replicas.remove(i - items_removed) }
RECURSIVE remove_failed(_, _, _)
remove_failed(reps, failed, items_removed) ==
  IF items_removed >= Len(failed) THEN reps
  ELSE remove_failed(remove(reps, failed[items_removed + 1] - items_removed),
                     failed, items_removed + 1)

\* (a faulty variant: send_replicas returns before it has sent to the replicas)
FanOutUnsent(c) ==
  /\ pc[c] = "fanout"
  /\ regLock = "free"
  /\ local' = [local EXCEPT ![c].failed = 0]
  /\ regLock' = c
  /\ pc' = [pc EXCEPT ![c] = "bytes"]
  /\ UNCHANGED <<auxVars, todo, slots, masterStore, masterLog, req, responses, wids, rx, linkVars, replicas,
                 replicaVars>>

\* send_replicas: under the registry lock, enqueue the frame for every replica
\* and remove the replicas whose enqueue failed
FanOut(c) ==
  /\ pc[c] = "fanout"
  /\ regLock = "free"
  /\ LET failed == failed_indexes(replicas, 1)
         sent == {replicas[i].conn : i \in {j \in 1..Len(replicas) : SessionAlive(replicas[j].conn)}}
     IN /\ outbox' = [r \in Links |-> IF r \in sent THEN Append(outbox[r], Replicate(req[c]))
                                      ELSE outbox[r]]
        /\ enq' = [r \in Links |-> IF r \in sent THEN Append(enq[r], req[c]) ELSE enq[r]]
        /\ replicas' = remove_failed(replicas, failed, 0)
        /\ local' = [local EXCEPT ![c].failed = Len(failed)]
  /\ regLock' = c
  /\ pc' = [pc EXCEPT ![c] = "bytes"]
  /\ UNCHANGED <<auxVars, todo, slots, masterStore, masterLog, req, responses, wids, rx, cur, down, up, written,
                 psync_n, replicaVars>>

\* replicas.len() - failed_indexes.len() > 0 in usize arithmetic: the
\* difference wraps, so it is positive exactly when the two differ
replicas_remain(len, failed_len) == len # failed_len

\* send_replicas: update the stored offset, release the registry lock; then
\* handle_message sends the responses
UpdateOffset(c) ==
  /\ pc[c] = "bytes"
  /\ regLock = c
  /\ log_bytes' = IF replicas_remain(Len(replicas), local[c].failed)
                  THEN log_bytes + DecodedSize(req[c]) ELSE log_bytes
  /\ regLock' = "free"
  /\ local' = [local EXCEPT ![c] = NoLocal]
  /\ pc' = [pc EXCEPT ![c] = "idle"]
  /\ UNCHANGED <<auxVars, todo, slots, masterStore, log, replicas, req, responses, wids, rx, linkVars,
                 replicaVars>>

----------------------------------------------------------------------------
\* The master: WAIT (MasterConnection::handle_command and request_ack).

WaitCounts == {1, 2}
WaitTimeouts == {0, 1000}

unwrap_or(opt, default) == IF opt.some THEN opt.v ELSE default
required_replicas(message) == unwrap_or(ParseInt(parse_command(message).params[1]), -1)
timeout_ms(message) == unwrap_or(ParseInt(parse_command(message).params[2]), -1)

getack == Request(<<REPLCONF, GETACK, <<"*">>>>)

\* (a faulty variant: the test is inverted)
log_is_not_empty(l) == Len(l) # 0
\* the log is empty: no need to check the replicas
log_is_empty(l) == Len(l) = 0

\* handle_command reads a WAIT request, parses its two numbers (the arguments
\* of request_ack) and looks at the log
ClientWait(c, n, t) ==
  /\ pc[c] = "idle"
  /\ todo.waits > 0
  /\ todo' = [todo EXCEPT !.waits = @ - 1]
  /\ LET message == Request(<<WAIT, FormatInt(n), FormatInt(t)>>)
     IN /\ parse_command(message).ok
        /\ Len(parse_command(message).params) = 2
        /\ required_replicas(message) >= 0 /\ timeout_ms(message) >= 0
        /\ req' = [req EXCEPT ![c] = message]
        /\ local' = [local EXCEPT ![c].expected_replicas = required_replicas(message),
                                  ![c].timeout = timeout_ms(message),
                                  ![c].log_len = Len(log)]
  /\ wids' = wids + 1
  /\ responses' = [responses EXCEPT ![c] = <<>>]
  /\ pc' = [pc EXCEPT ![c] = IF log_is_empty(log) THEN "wait_len" ELSE "wait_offset"]
  /\ UNCHANGED <<auxVars, slots, masterStore, masterLog, replicas, regLock, rx, linkVars, replicaVars>>

\* the empty-log case: reply with the number of registered replicas
WaitLen(c) ==
  /\ pc[c] = "wait_len"
  /\ regLock = "free"
  /\ responses' = [responses EXCEPT ![c] = <<RInt(Len(replicas))>>]
  /\ local' = [local EXCEPT ![c] = NoLocal]
  /\ pc' = [pc EXCEPT ![c] = "idle"]
  /\ UNCHANGED <<auxVars, todo, slots, masterStore, masterLog, replicas, regLock, req, wids, rx, linkVars,
                 replicaVars>>

\* request_ack: open the reply channel and read the master offset
WaitOffset(c) ==
  /\ pc[c] = "wait_offset"
  /\ local' = [local EXCEPT ![c].master_offset = log_bytes, ![c].id = wids,
                             ![c].replicated = 0, ![c].requested = {}, ![c].counted = <<>>]
  /\ rx' = [rx EXCEPT ![c] = <<>>]
  /\ pc' = [pc EXCEPT ![c] = "wait_lock"]
  /\ UNCHANGED <<auxVars, todo, slots, masterStore, masterLog, replicas, regLock, req, responses, wids, linkVars,
                 replicaVars>>

\* the first pass counts a replica whose last acknowledged offset is the master's
up_to_date(master_offset, offset) == master_offset = offset

\* request_ack's loop over the registry: the number of replicas counted, the
\* (1-based) indexes of those that were sent a GETACK, and (for the record)
\* the indexes of those counted
RECURSIVE first_pass(_, _, _, _, _)
first_pass(reps, i, master_offset, expected_replicas, acc) ==
  IF i > Len(reps) \/ acc.replicated >= expected_replicas THEN acc
  ELSE IF up_to_date(master_offset, reps[i].offset)
       THEN first_pass(reps, i + 1, master_offset, expected_replicas,
                       [acc EXCEPT !.replicated = @ + 1, !.counted = Append(@, i)])
       ELSE IF SessionAlive(reps[i].conn)
            THEN first_pass(reps, i + 1, master_offset, expected_replicas,
                            [acc EXCEPT !.requested = @ \cup {i}])
            ELSE first_pass(reps, i + 1, master_offset, expected_replicas, acc)

\* request_ack: take the registry lock and run the first pass
WaitFirstPass(c) ==
  /\ pc[c] = "wait_lock"
  /\ regLock = "free"
  /\ regLock' = c
  /\ LET acc == first_pass(replicas, 1, local[c].master_offset, local[c].expected_replicas,
                           [replicated |-> 0, requested |-> {}, counted |-> <<>>])
         asked == {replicas[i].conn : i \in acc.requested}
         index(r) == CHOOSE i \in acc.requested : replicas[i].conn = r
     IN /\ local' = [local EXCEPT ![c].replicated = acc.replicated,
                                  ![c].requested = acc.requested,
                                  ![c].counted = acc.counted]
        /\ outbox' = [r \in Links |->
                        IF r \in asked
                        THEN Append(outbox[r], Command(getack, c, local[c].id, index(r),
                                                       local[c].timeout))
                        ELSE outbox[r]]
  /\ pc' = [pc EXCEPT ![c] = "wait_poll"]
  /\ UNCHANGED <<auxVars, todo, slots, masterStore, masterLog, replicas, req, responses, wids, rx, cur, down, up,
                 written, enq, psync_n, replicaVars>>

\* a reported offset counts when it has reached the master offset
acked(off, master_offset) == off >= master_offset

\* the poll loop: a reply was posted on the channel
WaitRecv(c) ==
  /\ pc[c] = "wait_poll"
  /\ local[c].replicated < local[c].expected_replicas
  /\ rx[c] # <<>>
  /\ LET off == Head(rx[c]).off
         replica_index == Head(rx[c]).replica_index
     IN IF acked(off, local[c].master_offset)
        THEN /\ local' = [local EXCEPT ![c].replicated = @ + 1,
                                       ![c].counted = Append(@, replica_index)]
             /\ replicas' = [replicas EXCEPT ![replica_index].offset = off]
        ELSE UNCHANGED <<local, replicas>>
  /\ rx' = [rx EXCEPT ![c] = Tail(@)]
  /\ UNCHANGED <<auxVars, todo, slots, masterStore, masterLog, regLock, pc, req, responses, wids, linkVars,
                 replicaVars>>

\* request_ack returns its count: the registry lock and the channel are dropped
WaitReturn(c) ==
  /\ regLock' = "free"
  /\ responses' = [responses EXCEPT ![c] = <<RInt(local[c].replicated)>>]
  /\ rx' = [rx EXCEPT ![c] = <<>>]
  /\ local' = [local EXCEPT ![c] = NoLocal]
  /\ pc' = [pc EXCEPT ![c] = "idle"]
  /\ UNCHANGED <<auxVars, todo, slots, masterStore, masterLog, replicas, req, wids, linkVars, replicaVars>>

\* the poll loop: enough replicas are counted
WaitDone(c) ==
  /\ pc[c] = "wait_poll"
  /\ local[c].replicated >= local[c].expected_replicas
  /\ WaitReturn(c)

\* (a faulty variant: the poll loop sleeps on, the deadline is never looked at)
WaitSleep(c) ==
  /\ pc[c] = "wait_poll"
  /\ local[c].replicated < local[c].expected_replicas
  /\ rx[c] = <<>>
  /\ UNCHANGED vars

\* the poll loop: nothing on the channel and the timeout has elapsed
WaitTimeout(c) ==
  /\ pc[c] = "wait_poll"
  /\ local[c].replicated < local[c].expected_replicas
  /\ rx[c] = <<>>
  /\ WaitReturn(c)

----------------------------------------------------------------------------
\* The master: PSYNC and the replica session (handle_command,
\* master_replica_connection).

FULLRESYNC == <<"F","U","L","L","R","E","S","Y","N","C">>
psync_request == Request(<<PSYNC, <<"?">>, <<"-", "1">>>>)

\* (a faulty variant: the current log is not added to the responses)
sync_response_without_log(replid, current_log) ==
  <<RString(FULLRESYNC \o <<" ">> \o replid \o <<" ", "0">>), empty_rdb>>

\* the PSYNC responses: FULLRESYNC, the empty snapshot, the current log
sync_response(replid, current_log) ==
  <<RString(FULLRESYNC \o <<" ">> \o replid \o <<" ", "0">>), empty_rdb>> \o current_log

PeerGone(r) == rpc[r] = "gone"

\* Command::PSYNC: the replica does not know where to start, or names the
\* master's replication id
valid_psync(params) ==
  /\ Len(params) = 2
  /\ \/ (params[1] = <<"?">> /\ params[2] = <<"-", "1">>)
     \/ params[1] = master_replid

\* handle_message reads a PSYNC request and runs handle_command on it; an
\* Err ends the connection
MasterPsyncOf(r, request) ==
  /\ pc[r] = "idle"
  /\ rpc[r] = "psync_sent"
  /\ parse_command(request).ok /\ parse_command(request).cmd = PSYNC
  /\ req' = [req EXCEPT ![r] = request]
  /\ IF valid_psync(parse_command(request).params)
     THEN /\ responses' = [responses EXCEPT ![r] = sync_response(master_replid, log)]
          /\ psync_n' = [psync_n EXCEPT ![r] = Len(log)]
          /\ pc' = [pc EXCEPT ![r] = "psync_send"]
     ELSE /\ responses' = [responses EXCEPT ![r] = <<>>]
          /\ pc' = [pc EXCEPT ![r] = "closed"]
          /\ UNCHANGED psync_n
  /\ UNCHANGED <<auxVars, todo, slots, masterStore, masterLog, replicas, regLock, waitVars, outbox, cur, down, up,
                 written, enq, replicaVars>>

\* the PSYNC of the replica's handshake
MasterPsync(r) == MasterPsyncOf(r, psync_request)

\* handle_message sends the responses of the PSYNC
SendSync(r) ==
  /\ pc[r] = "psync_send"
  /\ down' = [down EXCEPT ![r] = @ \o responses[r]]
  /\ written' = [written EXCEPT ![r] = @ \o responses[r]]
  /\ pc' = [pc EXCEPT ![r] = "register"]
  /\ UNCHANGED <<auxVars, todo, slots, masterStore, masterLog, replicas, regLock, req, responses, waitVars, outbox,
                 cur, up, enq, psync_n, replicaVars>>

\* master_replica_connection: the thread's name is made of the binding
\* (replica_binding.clone().unwrap() panics on None: the thread ends), then
\* the new Replica is pushed into the registry
Register(r) ==
  /\ pc[r] = "register"
  /\ IF replica_binding[r].some
     THEN /\ regLock = "free"
          /\ replicas' = Append(replicas, [conn |-> r, offset |-> 0])
          /\ pc' = [pc EXCEPT ![r] = "drain"]
     ELSE /\ pc' = [pc EXCEPT ![r] = "closed"]
          /\ UNCHANGED replicas
  /\ outbox' = [outbox EXCEPT ![r] = <<>>]
  /\ UNCHANGED <<auxVars, todo, slots, masterStore, masterLog, regLock, req, responses, waitVars, cur, down, up,
                 written, enq, psync_n, replicaVars>>

\* the session ends (bail!, or an Err from set_read_timeout): its receiver is dropped
SessionEnd(r) ==
  /\ outbox' = [outbox EXCEPT ![r] = <<>>]
  /\ cur' = [cur EXCEPT ![r] = NoReq]
  /\ pc' = [pc EXCEPT ![r] = "closed"]
  /\ UNCHANGED <<down, written>>

\* a Replicate message: write the frame; a broken pipe ends the session
DrainReplicate(r) ==
  /\ pc[r] = "drain"
  /\ outbox[r] # <<>>
  /\ Head(outbox[r]).kind = "Replicate"
  /\ IF PeerGone(r) THEN SessionEnd(r)
     ELSE /\ down' = [down EXCEPT ![r] = Append(@, Head(outbox[r]).message)]
          /\ written' = [written EXCEPT ![r] = Append(@, Head(outbox[r]).message)]
          /\ outbox' = [outbox EXCEPT ![r] = Tail(@)]
          /\ UNCHANGED <<pc, cur>>
  /\ UNCHANGED <<auxVars, todo, slots, masterStore, masterLog, replicas, regLock, req, responses, waitVars, up, enq,
                 psync_n, replicaVars>>

\* a Command message: write the frame, then set the read timeout for the reply
\* (TcpStream::set_read_timeout returns an Err for a zero Duration)
DrainCommand(r) ==
  /\ pc[r] = "drain"
  /\ outbox[r] # <<>>
  /\ Head(outbox[r]).kind = "Command"
  /\ LET received == Head(outbox[r])
     IN IF PeerGone(r) THEN SessionEnd(r)
        ELSE IF parse_command(received.message).ok
                /\ parse_command(received.message).cmd = REPLCONF
        THEN /\ written' = [written EXCEPT ![r] = Append(@, received.message)]
             /\ IF received.timeout = 0
                THEN /\ outbox' = [outbox EXCEPT ![r] = <<>>]
                     /\ pc' = [pc EXCEPT ![r] = "closed"]
                     /\ down' = [down EXCEPT ![r] = Append(@, received.message)]
                     /\ UNCHANGED cur
                ELSE /\ outbox' = [outbox EXCEPT ![r] = Tail(@)]
                     /\ down' = [down EXCEPT ![r] = Append(@, received.message)]
                     /\ cur' = [cur EXCEPT ![r] = received]
                     /\ pc' = [pc EXCEPT ![r] = "cmd_read"]
        ELSE /\ written' = [written EXCEPT ![r] = Append(@, received.message)]
             /\ down' = [down EXCEPT ![r] = Append(@, received.message)]
             /\ outbox' = [outbox EXCEPT ![r] = Tail(@)]
             /\ UNCHANGED <<pc, cur>>
  /\ UNCHANGED <<auxVars, todo, slots, masterStore, masterLog, replicas, regLock, req, responses, waitVars, up, enq,
                 psync_n, replicaVars>>

\* the reply channel of the request_ack that sent this Command is still open
ChannelOpen(received) ==
  /\ pc[received.tx] \in {"wait_poll"}
  /\ local[received.tx].id = received.id

\* the session reads the replica's reply to the Command and posts the offset
CmdReply(r) ==
  /\ pc[r] = "cmd_read"
  /\ up[r] # <<>>
  /\ LET replica_ack == parse_command(Head(up[r]))
         offset == ParseNat(replica_ack.params[Len(replica_ack.params)])
     IN /\ replica_ack.ok /\ replica_ack.cmd = REPLCONF
        /\ Len(replica_ack.params) > 0 /\ offset.some
        /\ rx' = IF ChannelOpen(cur[r])
                 THEN [rx EXCEPT ![cur[r].tx] =
                         Append(@, [off |-> offset.v, replica_index |-> cur[r].replica_index])]
                 ELSE rx
  /\ up' = [up EXCEPT ![r] = Tail(@)]
  /\ cur' = [cur EXCEPT ![r] = NoReq]
  /\ pc' = [pc EXCEPT ![r] = "drain"]
  /\ UNCHANGED <<auxVars, todo, slots, masterStore, masterLog, replicas, regLock, req, responses, local, wids,
                 outbox, down, written, enq, psync_n, replicaVars>>

\* no reply within the read timeout: the session gives up waiting
CmdTimeout(r) ==
  /\ pc[r] = "cmd_read"
  /\ up[r] = <<>>
  /\ cur' = [cur EXCEPT ![r] = NoReq]
  /\ pc' = [pc EXCEPT ![r] = "drain"]
  /\ UNCHANGED <<auxVars, todo, slots, masterStore, masterLog, replicas, regLock, req, responses, waitVars, outbox,
                 down, up, written, enq, psync_n, replicaVars>>

----------------------------------------------------------------------------
\* The replica (ReplicaConnection::replica_master_connection).

this_port == <<"6","3","8","0">>

\* ping, replconf listening-port, replconf capa and the PSYNC request, and
\* the master's handling of the first three
ReplicaHandshake(r) ==
  /\ rpc[r] = "start"
  /\ rpc' = [rpc EXCEPT ![r] = "psync_sent"]
  /\ replica_binding' = [replica_binding EXCEPT ![r] = ParseNat(this_port)]
  /\ UNCHANGED <<hs, codec, lockVars, todo, slots, masterStore, masterLog, replicas, regLock, pc, req, responses, waitVars,
                 linkVars, replicated_offset, rstore, rlog_bytes, consumed, acks>>

\* a connection whose first request is a PSYNC
BarePsync(r) ==
  /\ rpc[r] = "start"
  /\ rpc' = [rpc EXCEPT ![r] = "psync_sent"]
  /\ UNCHANGED <<auxVars, todo, slots, masterStore, masterLog, replicas, regLock, pc, req, responses, waitVars,
                 linkVars, replicated_offset, rstore, rlog_bytes, consumed, acks>>

starts_with(s, prefix) == Len(s) >= Len(prefix) /\ SubSeq(s, 1, Len(prefix)) = prefix

\* psync reads FULLRESYNC and the snapshot; the offset is reset
ReplicaSynced(r) ==
  /\ rpc[r] = "psync_sent"
  /\ Len(down[r]) >= 2
  /\ down[r][1].t = "String"
  /\ starts_with(to_uppercase(down[r][1].s), FULLRESYNC \o <<" ">>)
  /\ down[r][2].t = "File"
  /\ down' = [down EXCEPT ![r] = SubSeq(@, 3, Len(@))]
  /\ replicated_offset' = [replicated_offset EXCEPT ![r] = 0]
  /\ rpc' = [rpc EXCEPT ![r] = "loop"]
  /\ UNCHANGED <<auxVars, todo, slots, masterStore, masterLog, replicas, regLock, pc, req, responses, waitVars,
                 outbox, cur, up, written, enq, psync_n, rstore, rlog_bytes, consumed, acks>>

\* handle_internal_command, REPLCONF: the ACK carries the current offset
ack_reply(offset) == Request(<<REPLCONF, ACK, FormatNat(offset)>>)

\* the replica goes away: the master's next write on the link is a broken pipe
ReplicaCrash(r) ==
  /\ rpc[r] = "loop"
  /\ rpc' = [rpc EXCEPT ![r] = "gone"]
  /\ UNCHANGED <<auxVars, todo, slots, masterStore, masterLog, replicas, regLock, pc, req, responses, waitVars,
                 linkVars, replicated_offset, rstore, rlog_bytes, consumed, acks>>

\* RedisServer::handle_command, INFO REPLICATION: the three reported fields
info_replication(is_master, replid, bytes) ==
  [role |-> IF ~is_master THEN "slave" ELSE "master",
   master_replid |-> replid,
   master_repl_offset |-> FormatNat(bytes)]

----------------------------------------------------------------------------
\* Streams (StreamEntryId, StoredValue, KVStore) and the blocking read
\* (RedisServer::handle_command XADD / XREAD, xread_values, block_xread).

BLOCK == <<"B","L","O","C","K">>
STREAMS == <<"s","t","r","e","a","m","s">>
ERR_NOT_A_STREAM == <<"n","o","t"," ","a"," ","s","t","r","e","a","m">>
ERR_NOT_FOUND(key) == <<"s","t","r","e","a","m"," ","n","o","t"," ","f","o","u","n","d"," ">> \o key
ERR_PARSE_INT == <<"i","n","v","a","l","i","d"," ","d","i","g","i","t"," ","f","o","u","n","d"," ","i","n"," ","s","t","r","i","n","g">>
ERR_INVALID_ID == <<"i","n","v","a","l","i","d"," ","i","d">>
ERR_ID_ZERO ==
  <<"E","R","R"," ","T","h","e"," ","I","D"," ","s","p","e","c","i","f","i","e","d"," ","i","n"," ","X","A","D","D"," ","m","u","s","t"," ","b","e"," ","g","r","e","a","t","e","r"," ","t","h","a","n"," ","0","-","0">>
ERR_ID_SMALLER ==
  <<"E","R","R"," ","T","h","e"," ","I","D"," ","s","p","e","c","i","f","i","e","d"," ","i","n"," ","X","A","D","D"," ","i","s"," ","e","q","u","a","l"," ","o","r"," ","s","m","a","l","l","e","r"," ","t","h","a","n"," ","t","h","e"," ","t","a","r","g","e","t"," ","s","t","r","e","a","m"," ","t","o","p"," ","i","t","e","m">>

\* StreamEntryId::MIN, and a stand-in for StreamEntryId::MAX = (u64::MAX, u64::MAX):
\* the ids of the model stay below it
U64_MAX == -1
MIN == <<0, 0>>
MAX == <<U64_MAX, U64_MAX>>

\* > on u64, U64_MAX being above every other value
u64_gt(x, y) == IF x = U64_MAX \/ y = U64_MAX THEN x = U64_MAX /\ y # U64_MAX ELSE x > y

\* PartialOrd for StreamEntryId
id_gt(a, b) == u64_gt(a[1], b[1]) \/ (a[1] = b[1] /\ u64_gt(a[2], b[2]))
id_lt(a, b) == id_gt(b, a)
id_le(a, b) == id_lt(a, b) \/ a = b
id_ge(a, b) == id_gt(a, b) \/ a = b

\* Display for StreamEntryId
id_to_string(id) == FormatNat(id[1]) \o <<"-">> \o FormatNat(id[2])

contains(s, ch) == \E i \in 1..Len(s) : s[i] = ch

\* str::split
RECURSIVE split(_, _)
split(s, sep) ==
  IF ~contains(s, sep) THEN <<s>>
  ELSE LET i == CHOOSE j \in 1..Len(s) : s[j] = sep /\ \A h \in 1..(j - 1) : s[h] # sep
       IN <<SubSeq(s, 1, i - 1)>> \o split(SubSeq(s, i + 1, Len(s)), sep)

\* FromStr for StreamEntryId
from_str(s) ==
  LET parts == split(s, "-")
  IN IF Len(parts) = 2
     THEN (IF ParseNat(parts[1]).some /\ ParseNat(parts[2]).some
           THEN Some(<<ParseNat(parts[1]).v, ParseNat(parts[2]).v>>) ELSE None)
     ELSE (IF ParseNat(s).some THEN Some(<<ParseNat(s).v, 0>>) ELSE None)

\* from_pattern's default_seq_id: 1 for the time 0, else 0
\* (a faulty variant: always 0)
default_seq_id_zero(time_id) == 0
default_seq_id(time_id) == IF time_id = 0 THEN 1 ELSE 0

\* StreamEntryId::from_pattern
from_pattern(pattern, last_id, clock) ==
  IF pattern = <<"*">>
  THEN (IF ~last_id.some THEN Some(<<clock, 0>>)
        ELSE Some(<<last_id.v[1], last_id.v[2] + 1>>))
  ELSE LET parts == split(pattern, "-")
       IN IF Len(parts) = 2 /\ parts[2] = <<"*">>
          THEN (IF ~ParseNat(parts[1]).some THEN None
                ELSE LET time_id == ParseNat(parts[1]).v
                     IN IF last_id.some /\ last_id.v[1] = time_id
                        THEN Some(<<time_id, last_id.v[2] + 1>>)
                        ELSE Some(<<time_id, default_seq_id(time_id)>>))
          ELSE None

\* the error of a pattern or an id that does not resolve
id_error(id_pattern) ==
  IF contains(id_pattern, "*") /\ ~(Len(split(id_pattern, "-")) = 2 /\ split(id_pattern, "-")[2] = <<"*">>)
  THEN ERR_INVALID_ID ELSE ERR_PARSE_INT

\* StoredValue::empty_stream
empty_stream(key) == [kind |-> "stream", key |-> key, entries |-> <<>>, listeners |-> <<>>]

StreamEvent(key, id) == [key |-> key, id |-> id]

\* add_entry's new id: a pattern is resolved against the last entry, any
\* other id is parsed
new_id_of(id_pattern, last, clock) ==
  IF contains(id_pattern, "*") THEN from_pattern(id_pattern, last, clock)
  ELSE from_str(id_pattern)

\* add_entry's test against the stream's top item
\* (a faulty variant: an id equal to the top item passes)
below_top_only(id, last) == last.some /\ id_lt(id, last.v)
not_above_top(id, last) == last.some /\ id_le(id, last.v)

\* (a faulty variant: every listener counts as live)
upgrade_always(listener) == TRUE
\* Weak::upgrade of a listener: the notifier is there as long as its waiter is
\* inside block_xread
upgrade(listener) == \E c \in Clients : pc[c] = "xread_wait" /\ local[c].listener = listener

\* StoredValue::add_entry: the new value (the record pushed, the dropped
\* listeners removed) and the event handed to every listener that is left
add_entry(value, id_pattern, entry, clock) ==
  IF value.kind # "stream" THEN [ok |-> FALSE, err |-> ERR_NOT_A_STREAM]
  ELSE LET entries == value.entries
           last == IF Len(entries) = 0 THEN None ELSE Some(entries[Len(entries)].id)
           new_id == new_id_of(id_pattern, last, clock)
       IN IF ~new_id.some THEN [ok |-> FALSE, err |-> id_error(id_pattern)]
          ELSE IF id_le(new_id.v, <<0, 0>>) THEN [ok |-> FALSE, err |-> ERR_ID_ZERO]
          ELSE IF not_above_top(new_id.v, last) THEN [ok |-> FALSE, err |-> ERR_ID_SMALLER]
          ELSE [ok |-> TRUE,
                value |-> [value EXCEPT !.entries = Append(@, [id |-> new_id.v, data |-> entry]),
                                        !.listeners = SelectSeq(@, upgrade)],
                new_ids |-> id_to_string(new_id.v),
                event |-> StreamEvent(value.key, new_id.v),
                notified |-> {value.listeners[i] : i \in {j \in 1..Len(value.listeners) :
                                                            upgrade(value.listeners[j])}}]

\* KVStore::insert_stream
insert_stream(st, key, id_pattern, stream_data, clock) ==
  LET st1 == IF st[key] = Absent THEN [st EXCEPT ![key] = empty_stream(key)] ELSE st
      added == add_entry(st1[key], id_pattern, stream_data, clock)
  IN IF added.ok
     THEN [added EXCEPT !.value = [st1 EXCEPT ![key] = added.value]]
     ELSE [ok |-> FALSE, err |-> added.err, value |-> st1]

\* StoredValue::range
range(value, from_id, to_id, inclusive_range) ==
  SelectSeq(value.entries,
            LAMBDA e : IF inclusive_range THEN id_ge(e.id, from_id) /\ id_le(e.id, to_id)
                       ELSE id_gt(e.id, from_id) /\ id_lt(e.id, to_id))

\* KVStore::read_stream
read_stream(st, key, from_id, to_id) ==
  IF key \notin DOMAIN st \/ st[key] = Absent THEN [ok |-> FALSE, err |-> ERR_NOT_FOUND(key)]
  ELSE IF st[key].kind # "stream" THEN [ok |-> FALSE, err |-> ERR_NOT_A_STREAM]
  ELSE [ok |-> TRUE, v |-> range(st[key], from_id, to_id, FALSE)]

\* KVStore::latest_stream (StoredValue::last_id)
latest_stream(st, key) ==
  IF key \notin DOMAIN st \/ st[key] = Absent THEN [ok |-> FALSE, err |-> ERR_NOT_FOUND(key)]
  ELSE IF st[key].kind # "stream" THEN [ok |-> FALSE, err |-> ERR_NOT_A_STREAM]
  ELSE [ok |-> TRUE,
        v |-> IF Len(st[key].entries) = 0 THEN MIN
              ELSE st[key].entries[Len(st[key].entries)].id]

\* encode_stream_entries
encode_stream_entries(entries) ==
  RArray([i \in 1..(2 * Len(entries)) |->
            RBulk(entries[(i + 1) \div 2][IF i % 2 = 1 THEN 1 ELSE 2])])

\* RedisServer::xread_values
RECURSIVE xread_results(_, _, _)
xread_results(st, keys, key_id_pairs) ==
  IF Len(keys) = 0 THEN [ok |-> TRUE, v |-> <<>>]
  ELSE LET key == Head(keys)
           key_results == read_stream(st, key, key_id_pairs[key], MAX)
           rest == xread_results(st, Tail(keys), key_id_pairs)
       IN IF ~key_results.ok THEN key_results
          ELSE IF ~rest.ok THEN rest
          ELSE IF Len(key_results.v) = 0 THEN rest
          ELSE [ok |-> TRUE,
                v |-> <<RArray(<<RBulk(key),
                                 RArray([i \in 1..Len(key_results.v) |->
                                           RArray(<<RBulk(id_to_string(key_results.v[i].id)),
                                                    encode_stream_entries(key_results.v[i].data)>>)])>>)>>
                      \o rest.v]

xread_values(st, keys, key_id_pairs) ==
  LET all_results == xread_results(st, keys, key_id_pairs)
  IN IF ~all_results.ok THEN all_results
     ELSE [ok |-> TRUE, v |-> IF Len(all_results.v) = 0 THEN RNull ELSE RArray(all_results.v)]

\* extract_option_list: the parameters after the option name
extract_option_list(params, option_name) ==
  LET hits == {i \in 1..Len(params) : to_uppercase(params[i]) = to_uppercase(option_name)}
  IN IF hits = {} THEN None
     ELSE Some(SubSeq(params, (CHOOSE j \in hits : \A h \in hits : j <= h) + 1, Len(params)))

\* the XREAD handler's key_id_pairs: each key's from_id, `$` resolved to the
\* stream's last id
resolve_id(st, key, id) ==
  IF id = <<"$">> THEN latest_stream(st, key)
  ELSE IF from_str(id).some THEN [ok |-> TRUE, v |-> from_str(id).v]
  ELSE [ok |-> FALSE, err |-> ERR_PARSE_INT]

xread_pairs(st, keys, ids) ==
  LET n == IF Len(keys) < Len(ids) THEN Len(keys) ELSE Len(ids)
      last_of(k) == CHOOSE i \in 1..n : keys[i] = k /\ \A j \in (i + 1)..n : keys[j] # k
  IN IF \E i \in 1..n : ~resolve_id(st, keys[i], ids[i]).ok THEN [ok |-> FALSE]
     ELSE [ok |-> TRUE,
           v |-> [k \in {keys[i] : i \in 1..n} |-> resolve_id(st, k, ids[last_of(k)]).v]]

\* block_xread's predicate on the notifier slot
is_acceptable(key_id_pairs, slot) ==
  /\ slot.some
  /\ slot.v.key \in DOMAIN key_id_pairs
  /\ id_gt(slot.v.id, key_id_pairs[slot.v.key])

StreamKey == <<"s">>
AddPatterns == {<<"1", "-", "*">>, <<"1", "-", "1">>}
BlockMs == {0, 100}

\* handle_message reads an XADD request and runs handle_command on it: the
\* record is added and the stream's listeners are handed the event
ClientXadd(c, id_pattern) ==
  /\ pc[c] = "idle"
  /\ todo.adds > 0
  /\ todo' = [todo EXCEPT !.adds = @ - 1]
  /\ LET message == Request(<<XADD, StreamKey, id_pattern, <<"f">>, <<"v">>>>)
         parsed == parse_command(message)
         key_value_pairs == SubSeq(parsed.params, 3, Len(parsed.params))
         stream_data == [i \in 1..(Len(key_value_pairs) \div 2) |->
                           <<key_value_pairs[2 * i - 1], key_value_pairs[2 * i]>>]
         done == insert_stream(store, parsed.params[1], parsed.params[2], stream_data, now)
     IN /\ parsed.ok /\ parsed.cmd = XADD /\ Len(parsed.params) >= 2
        /\ store' = done.value
        /\ slots' = IF done.ok
                    THEN [i \in 1..Len(slots) |->
                            IF i \in done.notified THEN Some(done.event) ELSE slots[i]]
                    ELSE slots
        /\ req' = [req EXCEPT ![c] = message]
        /\ responses' = [responses EXCEPT ![c] =
                           IF done.ok THEN <<RBulk(done.new_ids)>> ELSE <<RError(done.err)>>]
        /\ pc' = [pc EXCEPT ![c] = IF is_mutating(parsed.cmd) THEN "append" ELSE "idle"]
  /\ UNCHANGED <<auxVars, now, masterLog, replicas, regLock, waitVars, linkVars, replicaVars>>

xread_keys(message) ==
  LET sub_params == extract_option_list(parse_command(message).params, STREAMS).v
  IN SubSeq(sub_params, 1, Len(sub_params) \div 2)
xread_ids(message) ==
  LET sub_params == extract_option_list(parse_command(message).params, STREAMS).v
  IN SubSeq(sub_params, Len(sub_params) \div 2 + 1, Len(sub_params))
block_ms(message) == extract_option_u64(parse_command(message).params, BLOCK)

\* handle_command reads a blocking XREAD request and resolves the ids under
\* the store's read lock; an Err ends the connection
BlockedXread(c, message) ==
  /\ pc[c] = "idle"
  /\ todo.reads > 0
  /\ todo' = [todo EXCEPT !.reads = @ - 1]
  /\ LET key_id_pairs == xread_pairs(store, xread_keys(message), xread_ids(message))
     IN /\ parse_command(message).ok /\ parse_command(message).cmd = XREAD
        /\ block_ms(message).res = "some"
        /\ extract_option_list(parse_command(message).params, STREAMS).some
        /\ req' = [req EXCEPT ![c] = message]
        /\ IF key_id_pairs.ok
           THEN /\ local' = [local EXCEPT ![c].key_id_pairs = key_id_pairs.v]
                /\ pc' = [pc EXCEPT ![c] = "xread_scan"]
           ELSE /\ pc' = [pc EXCEPT ![c] = "closed"]
                /\ UNCHANGED local
  /\ responses' = [responses EXCEPT ![c] = <<>>]
  /\ UNCHANGED <<auxVars, slots, masterStore, masterLog, replicas, regLock, wids, rx, linkVars, replicaVars>>

\* a blocking XREAD of the one stream, from `$`
ClientXread(c, m) ==
  BlockedXread(c, Request(<<XREAD, <<"b","l","o","c","k">>, FormatNat(m), STREAMS,
                            StreamKey, <<"$">>>>))

\* the first xread_values: records that are already there are returned
XreadScan(c) ==
  /\ pc[c] = "xread_scan"
  /\ LET existing_values == xread_values(store, xread_keys(req[c]), local[c].key_id_pairs)
     IN IF ~existing_values.ok
        THEN /\ pc' = [pc EXCEPT ![c] = "closed"]
             /\ UNCHANGED responses
        ELSE IF existing_values.v # RNull
        THEN /\ responses' = [responses EXCEPT ![c] = <<existing_values.v>>]
             /\ pc' = [pc EXCEPT ![c] = "idle"]
        ELSE /\ pc' = [pc EXCEPT ![c] = "xread_listen"]
             /\ UNCHANGED responses
  /\ local' = [local EXCEPT ![c] = IF pc'[c] = "xread_listen" THEN @ ELSE NoLocal]
  /\ UNCHANGED <<auxVars, todo, slots, masterStore, masterLog, replicas, regLock, req, wids, rx, linkVars,
                 replicaVars>>

\* every order in which the keys of a HashMap can be iterated
orders(ks) ==
  {o \in [1..Cardinality(ks) -> ks] : \A i, j \in 1..Cardinality(ks) : i # j => o[i] # o[j]}

\* KVStore::add_listener: the keys are taken in order; a key that is missing
\* is passed over, the listener is pushed on a key that holds a stream, and
\* a key that holds anything else ends the loop with "not a stream", the
\* listeners pushed before it staying
RECURSIVE add_listener(_, _, _)
add_listener(st, keys, listener) ==
  IF keys = <<>> THEN [ok |-> TRUE, err |-> <<>>, store |-> st]
  ELSE IF Head(keys) \in DOMAIN st /\ st[Head(keys)] # Absent
  THEN IF st[Head(keys)].kind # "stream"
       THEN [ok |-> FALSE, err |-> ERR_NOT_A_STREAM, store |-> st]
       ELSE add_listener([st EXCEPT ![Head(keys)].listeners = Append(@, listener)],
                         Tail(keys), listener)
  ELSE add_listener(st, Tail(keys), listener)

\* block_xread: a new notifier, registered under the store's write lock
XreadListen(c) ==
  /\ pc[c] = "xread_listen"
  /\ slots' = Append(slots, None)
  /\ \E keys \in orders(DOMAIN local[c].key_id_pairs) :
       store' = add_listener(store, keys, Len(slots) + 1).store
  /\ local' = [local EXCEPT ![c].listener = Len(slots) + 1]
  /\ pc' = [pc EXCEPT ![c] = "xread_wait"]
  /\ UNCHANGED <<auxVars, todo, now, masterLog, replicas, regLock, req, responses, wids, rx, linkVars,
                 replicaVars>>

\* block_xread: the slot holds an acceptable event, the wait is over
XreadWake(c) ==
  /\ pc[c] = "xread_wait"
  /\ is_acceptable(local[c].key_id_pairs, slots[local[c].listener])
  /\ pc' = [pc EXCEPT ![c] = "xread_again"]
  /\ UNCHANGED <<auxVars, todo, slots, masterStore, masterLog, replicas, regLock, req, responses, waitVars,
                 linkVars, replicaVars>>

\* the second xread_values, after a wait that did not time out
XreadAgain(c) ==
  /\ pc[c] = "xread_again"
  /\ LET values == xread_values(store, xread_keys(req[c]), local[c].key_id_pairs)
     IN IF values.ok
        THEN /\ responses' = [responses EXCEPT ![c] = <<values.v>>]
             /\ pc' = [pc EXCEPT ![c] = "idle"]
        ELSE /\ pc' = [pc EXCEPT ![c] = "closed"]
             /\ UNCHANGED responses
  /\ local' = [local EXCEPT ![c] = NoLocal]
  /\ UNCHANGED <<auxVars, todo, slots, masterStore, masterLog, replicas, regLock, req, wids, rx, linkVars,
                 replicaVars>>

\* the wait of block_xread has a deadline unless BLOCK is 0
has_deadline(ms) == ms # 0

\* block_xread: the deadline passes with no acceptable event in the slot
XreadTimeout(c) ==
  /\ pc[c] = "xread_wait"
  /\ has_deadline(block_ms(req[c]).v)
  /\ ~is_acceptable(local[c].key_id_pairs, slots[local[c].listener])
  /\ responses' = [responses EXCEPT ![c] = <<RNull>>]
  /\ local' = [local EXCEPT ![c] = NoLocal]
  /\ pc' = [pc EXCEPT ![c] = "idle"]
  /\ UNCHANGED <<auxVars, todo, slots, masterStore, masterLog, replicas, regLock, req, wids, rx, linkVars,
                 replicaVars>>

----------------------------------------------------------------------------
\* The other commands of RedisServer::handle_command, and a client
\* connection that sends any of them.

PONG == <<"P","O","N","G">>
TYPE_NONE == <<"n","o","n","e">>
TYPE_STRING == <<"s","t","r","i","n","g">>
TYPE_STREAM == <<"s","t","r","e","a","m">>

\* StoredValue::value: the string of an entry that is a string and has not
\* expired
\* (a faulty variant: valid_until is not looked at)
value_of_any_age(v, clock) == IF v.kind = "string" THEN Some(v.value) ELSE None
value(v, clock) ==
  IF v.kind = "string" /\ v.valid_until.some /\ v.valid_until.v < clock THEN None
  ELSE IF v.kind = "string" THEN Some(v.value)
  ELSE None

\* StoredValue::value_type
value_type(v, clock) ==
  IF v.kind = "string" THEN (IF ~value(v, clock).some THEN TYPE_NONE ELSE TYPE_STRING)
  ELSE TYPE_STREAM

\* the keys of the map
keys(st) == {k \in DOMAIN st : st[k] # Absent}

\* Command::GET
handle_get(st, params, clock) ==
  IF Len(params) = 1
  THEN [res |-> "ok", store |-> st,
        replies |-> {<<IF st[params[1]] # Absent /\ value(st[params[1]], clock).some
                        THEN RBulk(value(st[params[1]], clock).v) ELSE RNull>>}]
  ELSE [res |-> "err", store |-> st]

\* Command::TYPE
handle_type(st, params, clock) ==
  IF Len(params) = 1
  THEN [res |-> "ok", store |-> st,
        replies |-> {<<RString(IF st[params[1]] = Absent THEN TYPE_NONE
                               ELSE value_type(st[params[1]], clock))>>}]
  ELSE [res |-> "err", store |-> st]

\* Command::KEYS: every key of the map, the pattern is not looked at
handle_keys(st, params) ==
  [res |-> "ok", store |-> st,
   replies |-> {<<RArray([i \in 1..Cardinality(keys(st)) |-> RBulk(o[i])])>> : o \in orders(keys(st))}]

\* Command::XADD
handle_xadd(st, params, clock) ==
  IF Len(params) >= 2
  THEN LET key_value_pairs == SubSeq(params, 3, Len(params))
           stream_data == [i \in 1..(Len(key_value_pairs) \div 2) |->
                             <<key_value_pairs[2 * i - 1], key_value_pairs[2 * i]>>]
           done == insert_stream(st, params[1], params[2], stream_data, clock)
       IN [res |-> "ok", store |-> done.value, added |-> done.ok,
           notified |-> IF done.ok THEN done.notified ELSE {},
           event |-> IF done.ok THEN Some(done.event) ELSE None,
           replies |-> {<<IF done.ok THEN RBulk(done.new_ids) ELSE RError(done.err)>>}]
  ELSE [res |-> "err", store |-> st]

\* StoredValue::range through KVStore::range_stream
range_stream(st, key, from_id, to_id) ==
  IF key \notin DOMAIN st \/ st[key] = Absent THEN [ok |-> FALSE, err |-> ERR_NOT_FOUND(key)]
  ELSE IF st[key].kind # "stream" THEN [ok |-> FALSE, err |-> ERR_NOT_A_STREAM]
  ELSE [ok |-> TRUE, v |-> range(st[key], from_id, to_id, TRUE)]

\* s.parse::<StreamEntryId>().or(s.parse::<u64>().map(|v| StreamEntryId::new(v, seq)))
parse_or(s, seq) ==
  IF from_str(s).some THEN from_str(s)
  ELSE IF ParseNat(s).some THEN Some(<<ParseNat(s).v, seq>>)
  ELSE None

\* Command::XRANGE
handle_xrange(st, params) ==
  IF Len(params) = 3
  THEN LET from_id == IF params[2] = <<"-">> THEN Some(MIN) ELSE parse_or(params[2], 0)
           to_id == IF params[3] = <<"+">> THEN Some(MAX) ELSE parse_or(params[3], U64_MAX)
       IN IF ~from_id.some \/ ~to_id.some THEN [res |-> "err", store |-> st]
          ELSE LET results == range_stream(st, params[1], from_id.v, to_id.v)
               IN [res |-> "ok", store |-> st,
                   replies |->
                     {<<IF ~results.ok THEN RError(results.err)
                        ELSE RArray([i \in 1..Len(results.v) |->
                                       RArray(<<RBulk(id_to_string(results.v[i].id)),
                                                encode_stream_entries(results.v[i].data)>>)])>>}]
  ELSE [res |-> "err", store |-> st]

\* Command::XREAD without BLOCK ("blocking" with it: that form is ClientXread's)
handle_xread(st, params) ==
  LET block == extract_option_u64(params, BLOCK)
      streams == extract_option_list(params, STREAMS)
  IN IF block.res \in {"err", "panic"} THEN [res |-> block.res, store |-> st]
     ELSE IF block.res = "some" THEN [res |-> "blocking", store |-> st]
     ELSE IF ~streams.some THEN [res |-> "err", store |-> st]
     ELSE LET sub_params == streams.v
              ks == SubSeq(sub_params, 1, Len(sub_params) \div 2)
              ids == SubSeq(sub_params, Len(sub_params) \div 2 + 1, Len(sub_params))
              key_id_pairs == xread_pairs(st, ks, ids)
          IN IF ~key_id_pairs.ok THEN [res |-> "err", store |-> st]
             ELSE LET values == xread_values(st, ks, key_id_pairs.v)
                  IN IF ~values.ok THEN [res |-> "err", store |-> st]
                     ELSE [res |-> "ok", store |-> st, replies |-> {<<values.v>>}]

\* Command::ECHO
handle_echo(st, params) ==
  IF Len(params) >= 1 THEN [res |-> "ok", store |-> st, replies |-> {<<RBulk(params[1])>>}]
  ELSE [res |-> "err", store |-> st]

\* the server's --dir and --dbfilename
db_dir == <<"/", "t", "m", "p">>
db_filename == <<"d", "b">>
DIR == <<"d", "i", "r">>
DBFILENAME == <<"d", "b", "f", "i", "l", "e", "n", "a", "m", "e">>
to_lowercase(s) ==
  [i \in 1..Len(s) |->
     IF \E j \in 1..Len(UpperChars) : UpperChars[j] = s[i]
     THEN LowerChars[CHOOSE j \in 1..Len(UpperChars) : UpperChars[j] = s[i]]
     ELSE s[i]]

\* Command::CONFIG
handle_config(st, params) ==
  IF Len(params) = 2 /\ to_uppercase(params[1]) = GET /\ to_lowercase(params[2]) = DIR
  THEN [res |-> "ok", store |-> st, replies |-> {<<RArray(<<RBulk(params[2]), RBulk(db_dir)>>)>>}]
  ELSE IF Len(params) = 2 /\ to_uppercase(params[1]) = GET /\ to_lowercase(params[2]) = DBFILENAME
  THEN [res |-> "ok", store |-> st, replies |-> {<<RArray(<<RBulk(params[2]), RBulk(db_filename)>>)>>}]
  ELSE [res |-> "err", store |-> st]

REPLICATION == <<"R","E","P","L","I","C","A","T","I","O","N">>

\* Command::INFO: the three pairs of INFO REPLICATION, joined by CRLF
handle_info(st, params, is_master, replid, bytes) ==
  IF Len(params) = 1 /\ to_uppercase(params[1]) = REPLICATION
  THEN LET info == info_replication(is_master, replid, bytes)
       IN [res |-> "ok", store |-> st,
           replies |-> {<<RBulk(<<"r","o","l","e",":">>
                                  \o (IF info.role = "slave" THEN <<"s","l","a","v","e">>
                                      ELSE <<"m","a","s","t","e","r">>)
                                  \o <<"\r", "\n">>
                                  \o <<"m","a","s","t","e","r","_","r","e","p","l","i","d",":">>
                                  \o info.master_replid
                                  \o <<"\r", "\n">>
                                  \o <<"m","a","s","t","e","r","_","r","e","p","l","_",
                                       "o","f","f","s","e","t",":">>
                                  \o info.master_repl_offset)>>}]
  ELSE [res |-> "err", store |-> st]

\* RedisServer::handle_command: "ok" with the possible responses and the new
\* store, or "err" / "panic" (the connection's thread ends)
handle_command(st, cmd, params, clock) ==
  CASE cmd = PING -> [res |-> "ok", store |-> st, replies |-> {<<RString(PONG)>>}]
    [] cmd = ECHO -> handle_echo(st, params)
    [] cmd = CONFIG -> handle_config(st, params)
    [] cmd = SET ->
         LET done == handle_set(st, params, clock)
         IN IF done.res = "ok" THEN [res |-> "ok", store |-> done.store, replies |-> {done.responses}]
            ELSE [res |-> done.res, store |-> st]
    [] cmd = GET -> handle_get(st, params, clock)
    [] cmd = TYPE -> handle_type(st, params, clock)
    [] cmd = KEYS -> handle_keys(st, params)
    [] cmd = XADD -> handle_xadd(st, params, clock)
    [] cmd = XRANGE -> handle_xrange(st, params)
    [] cmd = XREAD -> handle_xread(st, params)
    [] OTHER -> [res |-> "err", store |-> st]

\* the client of the store, replica and handshake scenarios
StoreClient == "c1"

\* the requests of the store scenario
PatternsOf == {<<"*">>, <<"0", "-", "*">>, <<"1", "-", "*">>, <<"0", "-", "0">>,
               <<"1", "-", "1">>, <<"1">>, <<"0", "-", "1">>}
PxMs == 100
SetPx == Request(<<SET, <<"k">>, <<"a">>, <<"p", "x">>, FormatNat(PxMs)>>)
SetRequests == {Request(<<SET, <<"k">>, <<"a">>>>), SetPx}
AddRequests ==
  {Request(<<XADD, StreamKey, p, <<"f">>, <<"v">>>>) : p \in PatternsOf}
    \cup {Request(<<XADD, <<"k">>, <<"1", "-", "1">>, <<"f">>, <<"v">>>>)}
ReadRequests ==
  {Request(<<GET, <<"k">>>>), Request(<<GET, StreamKey>>),
   Request(<<TYPE, <<"k">>>>), Request(<<TYPE, StreamKey>>),
   Request(<<KEYS, <<"*">>>>),
   Request(<<XRANGE, StreamKey, <<"-">>, <<"+">>>>),
   Request(<<XRANGE, StreamKey, <<"1">>, <<"1">>>>),
   Request(<<XRANGE, StreamKey, <<"0", "-", "1">>, <<"1", "-", "0">>>>),
   Request(<<XRANGE, <<"k">>, <<"-">>, <<"+">>>>),
   Request(<<XREAD, STREAMS, StreamKey, <<"0", "-", "0">>>>),
   Request(<<XREAD, STREAMS, <<"k">>, <<"0", "-", "0">>>>)}

\* handle_message reads a request and runs handle_command on it; an Err ends
\* the connection, a mutating command goes on to send_replicas, any other is
\* answered
ClientCommand(c, message) ==
  /\ pc[c] = "idle"
  /\ todo.sends > 0
  /\ todo' = [todo EXCEPT !.sends = @ - 1]
  /\ \E parsed \in {parse_command(message)} :
     \E done \in {IF parsed.cmd = INFO
                   THEN handle_info(store, parsed.params, TRUE, master_replid, log_bytes)
                   ELSE handle_command(store, parsed.cmd, parsed.params, now)} :
        /\ parsed.ok
        /\ done.res # "blocking"
        /\ req' = [req EXCEPT ![c] = message]
        /\ store' = done.store
        /\ slots' = IF parsed.cmd = XADD /\ done.res = "ok" /\ done.added
                    THEN [i \in 1..Len(slots) |->
                            IF i \in done.notified THEN done.event ELSE slots[i]]
                    ELSE slots
        /\ IF done.res = "ok"
           THEN /\ \E r \in done.replies : responses' = [responses EXCEPT ![c] = r]
                /\ pc' = [pc EXCEPT ![c] = IF is_mutating(parsed.cmd) THEN "append" ELSE "idle"]
           ELSE /\ responses' = [responses EXCEPT ![c] = <<>>]
                /\ pc' = [pc EXCEPT ![c] = "closed"]
  /\ UNCHANGED <<auxVars, now, masterLog, replicas, regLock, waitVars, linkVars, replicaVars>>

\* the requests a client of the replica sends
ReplicaRequests ==
  {Request(<<SET, <<"k">>, <<"b">>>>),
   Request(<<XADD, StreamKey, <<"1", "-", "1">>, <<"f">>, <<"v">>>>),
   Request(<<GET, <<"k">>>>),
   Request(<<TYPE, <<"k">>>>),
   Request(<<KEYS, <<"*">>>>)}

\* ReplicaConnection::handle_request on a client connection q of the replica
\* of link r: handle_client_command bails on a mutating command (the
\* connection's thread ends), any other command is RedisServer's
ReplicaClientCommand(q, r, message) ==
  /\ pc[q] = "idle"
  /\ todo.asks > 0
  /\ todo' = [todo EXCEPT !.asks = @ - 1]
  /\ \E parsed \in {parse_command(message)} :
        /\ parsed.ok
        /\ req' = [req EXCEPT ![q] = message]
        /\ IF is_mutating(parsed.cmd)
           THEN /\ responses' = [responses EXCEPT ![q] = <<>>]
                /\ pc' = [pc EXCEPT ![q] = "closed"]
                /\ UNCHANGED rstore
           ELSE \E done \in {IF parsed.cmd = INFO
                              THEN handle_info(rstore[r], parsed.params, FALSE, master_replid,
                                               rlog_bytes[r])
                              ELSE handle_command(rstore[r], parsed.cmd, parsed.params, now)} :
                  /\ done.res # "blocking"
                  /\ rstore' = [rstore EXCEPT ![r] = done.store]
                  /\ IF done.res = "ok"
                     THEN /\ \E reply \in done.replies : responses' = [responses EXCEPT ![q] = reply]
                          /\ UNCHANGED pc
                     ELSE /\ responses' = [responses EXCEPT ![q] = <<>>]
                          /\ pc' = [pc EXCEPT ![q] = "closed"]
  /\ UNCHANGED <<auxVars, slots, masterStore, masterLog, replicas, regLock, waitVars, linkVars,
                 rpc, replicated_offset, rlog_bytes, consumed, acks>>

\* one round of the replication loop: read a frame, handle it, reply to a
\* REPLCONF, add the frame's length to the offset
ReplicaLoop(r) ==
  /\ rpc[r] = "loop"
  /\ down[r] # <<>>
  /\ \E message \in {Head(down[r])} :
     \E len \in {DecodedSize(message)} :
     \E command \in {parse_command(message)} :
        /\ down' = [down EXCEPT ![r] = Tail(@)]
        /\ IF ~command.ok
           THEN /\ rpc' = [rpc EXCEPT ![r] = "failed"]
                /\ UNCHANGED <<up, rstore, replicated_offset, consumed, acks>>
           ELSE IF command.cmd = REPLCONF
           THEN /\ up' = [up EXCEPT ![r] = Append(@, ack_reply(replicated_offset[r]))]
                /\ acks' = [acks EXCEPT ![r] =
                              Append(@, [reply |-> ack_reply(replicated_offset[r]),
                                         at |-> Len(consumed[r]) + 1])]
                /\ replicated_offset' = [replicated_offset EXCEPT ![r] = @ + len]
                /\ consumed' = [consumed EXCEPT ![r] = Append(@, message)]
                /\ UNCHANGED <<rstore, rpc>>
           ELSE \E done \in {handle_command(rstore[r], command.cmd, command.params, now)} :
                   IF done.res = "ok"
                   THEN /\ rstore' = [rstore EXCEPT ![r] = done.store]
                        /\ replicated_offset' = [replicated_offset EXCEPT ![r] = @ + len]
                        /\ consumed' = [consumed EXCEPT ![r] = Append(@, message)]
                        /\ UNCHANGED <<up, acks, rpc>>
                   ELSE /\ rpc' = [rpc EXCEPT ![r] = IF done.res = "panic" THEN "panicked" ELSE "failed"]
                        /\ UNCHANGED <<up, rstore, replicated_offset, consumed, acks>>
  /\ UNCHANGED <<auxVars, todo, slots, masterStore, masterLog, replicas, regLock, pc, req, responses, waitVars,
                 outbox, cur, written, enq, psync_n, rlog_bytes>>

\* one request of every command RedisServer handles, and one of every command
TagRequests ==
  {Request(<<PING>>), Request(<<ECHO, <<"a">>>>),
   Request(<<SET, <<"k">>, <<"a">>>>), Request(<<GET, <<"k">>>>),
   Request(<<TYPE, <<"k">>>>), Request(<<KEYS, <<"*">>>>),
   Request(<<INFO, <<"r","e","p","l","i","c","a","t","i","o","n">>>>),
   Request(<<CONFIG, GET, DIR>>),
   Request(<<XADD, StreamKey, <<"1", "-", "1">>, <<"f">>, <<"v">>>>),
   Request(<<XRANGE, StreamKey, <<"-">>, <<"+">>>>),
   Request(<<XREAD, STREAMS, StreamKey, <<"0", "-", "0">>>>)}
AllTagRequests ==
  TagRequests \cup {psync_request, Request(<<REPLCONF, GETACK, <<"*">>>>),
                    Request(<<WAIT, <<"0">>, <<"0">>>>)}

TickMs == {60, 120}

\* the wall clock moves on (a handler reads it in its first step only: it
\* is moved between two requests)
Tick ==
  /\ todo.ticks > 0
  /\ pc[StoreClient] = "idle"
  /\ todo' = [todo EXCEPT !.ticks = @ - 1]
  /\ \E d \in TickMs : now' = now + d
  /\ UNCHANGED <<auxVars, slots, store, masterLog, replicas, regLock, pc, req, responses, waitVars,
                 linkVars, replicaVars>>

----------------------------------------------------------------------------
\* The handshake, message by message (RedisClient::ping / replconfig / psync
\* on the replica, MasterConnection::handle_command on the master).

LISTENING_PORT == <<"l","i","s","t","e","n","i","n","g","-","p","o","r","t">>
CAPA == <<"c","a","p","a">>
PSYNC2 == <<"p","s","y","n","c","2">>

ping_request == Request(<<PING>>)
port_request == Request(<<REPLCONF, LISTENING_PORT, this_port>>)
capa_request == Request(<<REPLCONF, CAPA, PSYNC2>>)

Sent(m) == [dir |-> "sent", m |-> m]
Read(m) == [dir |-> "read", m |-> m]

\* the reply the client waits for: a simple string that is `word` in upper case
is_reply(m, word) == m.t = "String" /\ to_uppercase(m.s) = word

\* RedisClient::ping: send PING
ReplicaPing(r) ==
  /\ rpc[r] = "start"
  /\ up' = [up EXCEPT ![r] = Append(@, ping_request)]
  /\ hs' = [hs EXCEPT ![r] = Append(@, Sent(ping_request))]
  /\ rpc' = [rpc EXCEPT ![r] = "ping_sent"]
  /\ UNCHANGED <<codec, replica_binding, lockVars, todo, slots, masterStore, masterLog, replicas, regLock, pc, req, responses, waitVars,
                 outbox, cur, down, written, enq, psync_n, replicated_offset, rstore, rlog_bytes,
                 consumed, acks>>

\* the client reads the reply to `at`; the expected one lets it send `request`
\* and go to `to`, any other ends the handshake (bail!)
ReplicaNext(r, at, word, request, to) ==
  /\ rpc[r] = at
  /\ down[r] # <<>>
  /\ down' = [down EXCEPT ![r] = Tail(@)]
  /\ IF is_reply(Head(down[r]), word)
     THEN /\ hs' = [hs EXCEPT ![r] = @ \o <<Read(Head(down[r])), Sent(request)>>]
          /\ rpc' = [rpc EXCEPT ![r] = to]
     ELSE /\ hs' = [hs EXCEPT ![r] = Append(@, Read(Head(down[r])))]
          /\ rpc' = [rpc EXCEPT ![r] = "failed"]

\* the end of ping and replconfig("listening-port", port)
ReplicaPort(r) ==
  /\ ReplicaNext(r, "ping_sent", PONG, port_request, "port_sent")
  /\ up' = [up EXCEPT ![r] = IF rpc'[r] = "failed" THEN @ ELSE Append(@, port_request)]
  /\ UNCHANGED <<codec, replica_binding, lockVars, todo, slots, masterStore, masterLog, replicas, regLock, pc, req, responses, waitVars,
                 outbox, cur, written, enq, psync_n, replicated_offset, rstore, rlog_bytes,
                 consumed, acks>>

\* the end of replconfig("listening-port", port) and replconfig("capa", "psync2")
ReplicaCapa(r) ==
  /\ ReplicaNext(r, "port_sent", OK, capa_request, "capa_sent")
  /\ up' = [up EXCEPT ![r] = IF rpc'[r] = "failed" THEN @ ELSE Append(@, capa_request)]
  /\ UNCHANGED <<codec, replica_binding, lockVars, todo, slots, masterStore, masterLog, replicas, regLock, pc, req, responses, waitVars,
                 outbox, cur, written, enq, psync_n, replicated_offset, rstore, rlog_bytes,
                 consumed, acks>>

\* the end of replconfig("capa", "psync2") and psync("?", -1): the request
\* is the one MasterPsync reads
ReplicaPsync(r) ==
  /\ ReplicaNext(r, "capa_sent", OK, psync_request, "psync_sent")
  /\ UNCHANGED <<codec, replica_binding, lockVars, todo, slots, masterStore, masterLog, replicas, regLock, pc, req, responses, waitVars,
                 outbox, cur, up, written, enq, psync_n, replicated_offset, rstore, rlog_bytes,
                 consumed, acks>>

\* MasterConnection::handle_command, Command::REPLCONF: OK, unless the
\* listening port does not parse (a Port is a u32: the ports of the model
\* are below its greatest value)
\* (a faulty variant: the reply is PONG)
replconf_pong(params) == [res |-> "ok", replies |-> {<<RString(PONG)>>}]
replconf(params) ==
  IF /\ Len(params) = 2
     /\ to_uppercase(params[1]) = to_uppercase(LISTENING_PORT)
     /\ ~ParseNat(params[2]).some
  THEN [res |-> "err"]
  ELSE [res |-> "ok", replies |-> {<<RString(OK)>>}]

\* handle_message on a link before its PSYNC: REPLCONF is the master's, any
\* other command RedisServer's; the responses are sent, an Err ends the
\* connection
MasterHandshake(r) ==
  /\ pc[r] = "idle"
  /\ up[r] # <<>>
  /\ rpc[r] \in {"ping_sent", "port_sent", "capa_sent"}
  /\ up' = [up EXCEPT ![r] = Tail(@)]
  /\ req' = [req EXCEPT ![r] = Head(up[r])]
  /\ \E parsed \in {parse_command(Head(up[r]))} :
       /\ parsed.ok
       /\ replica_binding' =
            IF parsed.cmd = REPLCONF /\ replconf(parsed.params).res = "ok"
               /\ Len(parsed.params) = 2
               /\ to_uppercase(parsed.params[1]) = to_uppercase(LISTENING_PORT)
            THEN [replica_binding EXCEPT ![r] = ParseNat(parsed.params[2])]
            ELSE replica_binding
       /\ \E done \in {IF parsed.cmd = REPLCONF THEN replconf(parsed.params)
                       ELSE handle_command(store, parsed.cmd, parsed.params, now)} :
            IF done.res = "ok"
            THEN \E reply \in done.replies :
                   /\ responses' = [responses EXCEPT ![r] = reply]
                   /\ down' = [down EXCEPT ![r] = @ \o reply]
                   /\ written' = [written EXCEPT ![r] = @ \o reply]
                   /\ UNCHANGED pc
            ELSE /\ responses' = [responses EXCEPT ![r] = <<>>]
                 /\ pc' = [pc EXCEPT ![r] = "closed"]
                 /\ UNCHANGED <<down, written>>
  /\ UNCHANGED <<hs, codec, lockVars, todo, slots, masterStore, masterLog, replicas, regLock, waitVars, outbox,
                 cur, enq, psync_n, replicaVars>>

----------------------------------------------------------------------------
\* The codec, byte by byte (encode_message, decode_message): a frame is a
\* sequence of characters.

CRLF == <<"\r", "\n">>
White == {" ", "\t", "\r", "\n"}

\* str::trim
RECURSIVE trim_start(_)
trim_start(s) == IF Len(s) > 0 /\ s[1] \in White THEN trim_start(Tail(s)) ELSE s
RECURSIVE trim_end(_)
trim_end(s) ==
  IF Len(s) > 0 /\ s[Len(s)] \in White THEN trim_end(SubSeq(s, 1, Len(s) - 1)) ELSE s
trim(s) == trim_end(trim_start(s))

\* BufRead::read_line: the bytes up to the first line feed, with it
read_line(bytes) ==
  IF \E i \in 1..Len(bytes) : bytes[i] = "\n"
  THEN SubSeq(bytes, 1, CHOOSE i \in 1..Len(bytes) : bytes[i] = "\n" /\ \A j \in 1..(i - 1) : bytes[j] # "\n")
  ELSE bytes

RECURSIVE Join(_)
Join(frames) == IF Len(frames) = 0 THEN <<>> ELSE Head(frames) \o Join(Tail(frames))

\* encode_message: the bytes written for m (the bytes of a File are not
\* modelled, only their number)
RECURSIVE encode_message(_)
encode_message(m) ==
  CASE m.t = "String" -> <<"+">> \o m.s \o CRLF
    [] m.t = "Error"  -> <<"-">> \o m.s \o CRLF
    [] m.t = "Int"    -> <<":">> \o FormatInt(m.n) \o CRLF
    [] m.t = "Bulk"   -> <<"$">> \o FormatNat(Len(m.s)) \o CRLF \o m.s \o CRLF
    [] m.t = "Null"   -> <<"$", "-", "1">> \o CRLF
    [] m.t = "Array"  -> <<"*">> \o FormatNat(Len(m.a)) \o CRLF
                           \o Join([i \in 1..Len(m.a) |-> encode_message(m.a[i])])
    [] m.t = "File"   -> <<"$">> \o FormatNat(m.len) \o CRLF \o [i \in 1..m.len |-> "."]

\* the body of a `$` header line whose length is n: the payload and its
\* CRLF are read (None when the bytes run out; the asserts panic)
decode_bulk(line_len, n, rest) ==
  IF Len(rest) < n + 2 THEN [res |-> "ok", full_len |-> line_len, v |-> None, rest |-> <<>>]
  ELSE IF rest[n + 1] # "\r" \/ rest[n + 2] # "\n" THEN [res |-> "panic"]
  ELSE [res |-> "ok", full_len |-> line_len + (n + 2), v |-> Some(RBulk(SubSeq(rest, 1, n))),
        rest |-> SubSeq(rest, n + 3, Len(rest))]

\* decode_message: "ok" with full_len, the value (None when a bulk's bytes
\* run out) and the bytes left, or "err" (bail!) or "panic" (unwrap, assert)
RECURSIVE decode_message(_)
RECURSIVE decode_items(_, _, _)
decode_header(len, line, rest) ==
  CASE line[1] = "+" -> [res |-> "ok", full_len |-> len, v |-> Some(RString(Tail(line))), rest |-> rest]
    [] line[1] = "-" -> [res |-> "ok", full_len |-> len, v |-> Some(RError(Tail(line))), rest |-> rest]
    [] line[1] = ":" ->
         IF ParseInt(Tail(line)).some
         THEN [res |-> "ok", full_len |-> len, v |-> Some(RInt(ParseInt(Tail(line)).v)), rest |-> rest]
         ELSE [res |-> "panic"]
    [] line[1] = "$" ->
         IF ~ParseInt(Tail(line)).some THEN [res |-> "panic"]
         ELSE IF ParseInt(Tail(line)).v < 0
         THEN [res |-> "ok", full_len |-> len, v |-> Some(RNull), rest |-> rest]
         ELSE decode_bulk(len, ParseInt(Tail(line)).v, rest)
    [] line[1] = "*" ->
         IF ~ParseNat(Tail(line)).some THEN [res |-> "panic"]
         ELSE decode_items(len, ParseNat(Tail(line)).v, rest)
    [] OTHER -> [res |-> "err"]

decode_message(bytes) ==
  IF Len(read_line(bytes)) = 0 \/ trim(read_line(bytes)) = <<>> THEN [res |-> "err"]
  ELSE decode_header(Len(read_line(bytes)), trim(read_line(bytes)),
                     SubSeq(bytes, Len(read_line(bytes)) + 1, Len(bytes)))

\* the items of an array: full_len grows by each item's length
item_done(first, more) ==
  IF more.res # "ok" THEN more
  ELSE [res |-> "ok", full_len |-> more.full_len, v |-> Some(RArray(<<first.v.v>> \o more.v.v.a)),
        rest |-> more.rest]

item_next(full_len, n, first) ==
  IF first.res # "ok" THEN first
  ELSE IF ~first.v.some THEN [res |-> "panic"]
  ELSE item_done(first, decode_items(full_len + first.full_len, n - 1, first.rest))

decode_items(full_len, n, rest) ==
  IF n = 0 THEN [res |-> "ok", full_len |-> full_len, v |-> Some(RArray(<<>>)), rest |-> rest]
  ELSE item_next(full_len, n, decode_message(rest))

\* the well-formed frames of the codec scenario
Line(s) == s \o CRLF
Scalars ==
  {Line(<<"+", "O", "K">>), Line(<<"+", "a", " ">>), Line(<<"-", "E">>),
   Line(<<":", "5">>), Line(<<":", "-", "1">>),
   Line(<<"$", "1">>) \o Line(<<"a">>), Line(<<"$", "0">>) \o Line(<<>>),
   Line(<<"$", "-", "1">>)}
ArrayOf(items) == Line(<<"*">> \o FormatNat(Len(items))) \o Join(items)
ItemLists(n) == UNION {[1..k -> Scalars] : k \in 0..n}
Frames ==
  Scalars
    \cup {ArrayOf(items) : items \in ItemLists(MaxItems)}
    \cup {ArrayOf(<<ArrayOf(items), s>>) : items \in ItemLists(1), s \in Scalars}

\* read_message: the frame is decoded
Decode ==
  /\ codec.step = "frame"
  /\ \E done \in {decode_message(codec.b)} :
       codec' = IF done.res = "ok" /\ done.v.some
                THEN [step |-> "decoded", b |-> codec.b, v |-> done.v.v, consumed |-> done.full_len]
                ELSE [step |-> "failed", b |-> codec.b, res |-> done.res]
  /\ UNCHANGED <<hs, replica_binding, lockVars, todo, slots, masterStore, masterLog, replicas, regLock, pc, req, responses, waitVars,
                 linkVars, replicaVars>>

\* write_message: the value is encoded, the CountingWriter counts the bytes
Encode ==
  /\ codec.step = "decoded"
  /\ \E out \in {encode_message(codec.v)} :
       codec' = [step |-> "encoded", b |-> codec.b, v |-> codec.v, consumed |-> codec.consumed,
                 out |-> out, written |-> Len(out)]
  /\ UNCHANGED <<hs, replica_binding, lockVars, todo, slots, masterStore, masterLog, replicas, regLock, pc, req, responses, waitVars,
                 linkVars, replicaVars>>

----------------------------------------------------------------------------
\* The fan-out scenario: two clients send SET requests while two replicas
\* attach.  The replicas' side of the links is left out: nothing here reads it.

Init == Fresh /\ todo = Workload(MaxMut, 0, 0, 0)

Next ==
  \/ \E c \in Clients : ClientSet(c)
  \/ \E c \in Clients : LogAppend(c)
  \/ \E c \in Clients : FanOut(c)
  \/ \E c \in Clients : UpdateOffset(c)
  \/ \E r \in Links : ReplicaHandshake(r)
  \/ \E r \in Links : MasterPsync(r)
  \/ \E r \in Links : SendSync(r)
  \/ \E r \in Links : Register(r)
  \/ \E r \in Links : DrainReplicate(r)

Spec == Init /\ [][Next]_vars

----------------------------------------------------------------------------
\* The WAIT scenario: one client sends SET and WAIT requests, one replica
\* attaches, follows the replication stream, and may go away.

WaitClient == "c1"
WaitLink == "r1"

InitWait == Fresh /\ todo = Workload(MaxWaitMut, MaxWaits, 0, 0)

NextWait ==
  \/ ClientSet(WaitClient)
  \/ LogAppend(WaitClient)
  \/ FanOut(WaitClient)
  \/ UpdateOffset(WaitClient)
  \/ \E n \in WaitCounts, t \in WaitTimeouts : ClientWait(WaitClient, n, t)
  \/ WaitLen(WaitClient)
  \/ WaitOffset(WaitClient)
  \/ WaitFirstPass(WaitClient)
  \/ WaitRecv(WaitClient)
  \/ WaitDone(WaitClient)
  \/ WaitTimeout(WaitClient)
  \/ ReplicaHandshake(WaitLink)
  \/ MasterPsync(WaitLink)
  \/ SendSync(WaitLink)
  \/ Register(WaitLink)
  \/ DrainReplicate(WaitLink)
  \/ DrainCommand(WaitLink)
  \/ CmdReply(WaitLink)
  \/ CmdTimeout(WaitLink)
  \/ ReplicaSynced(WaitLink)
  \/ ReplicaLoop(WaitLink)
  \/ ReplicaCrash(WaitLink)

SpecWait == InitWait /\ [][NextWait]_vars

----------------------------------------------------------------------------
\* The scenario with both replicas attached and synchronised before the
\* first request of the one client.

AttachedAt(clock) ==
  /\ slots = <<>>
  /\ now = clock
  /\ store = [k \in Keys |-> Absent]
  /\ log = <<>>
  /\ log_bytes = 0
  /\ replicas = <<[conn |-> "r1", offset |-> 0], [conn |-> "r2", offset |-> 0]>>
  /\ regLock = "free"
  /\ pc = [c \in Conns |-> IF c \in Links THEN "drain" ELSE "idle"]
  /\ req = [c \in Conns |-> IF c \in Links THEN psync_request ELSE NoReq]
  /\ responses = [c \in Conns |->
                    IF c \in Links THEN sync_response(master_replid, <<>>) ELSE <<>>]
  /\ local = [c \in Clients |-> NoLocal]
  /\ wids = 0
  /\ rx = [c \in Clients |-> <<>>]
  /\ outbox = [r \in Links |-> <<>>]
  /\ cur = [r \in Links |-> NoReq]
  /\ down = [r \in Links |-> <<>>]
  /\ up = [r \in Links |-> <<>>]
  /\ written = [r \in Links |-> sync_response(master_replid, <<>>)]
  /\ enq = [r \in Links |-> <<>>]
  /\ psync_n = [r \in Links |-> 0]
  /\ rpc = [r \in Links |-> "loop"]
  /\ replicated_offset = [r \in Links |-> 0]
  /\ rstore = [r \in Links |-> [k \in Keys |-> Absent]]
  /\ rlog_bytes = [r \in Links |-> 0]
  /\ consumed = [r \in Links |-> <<>>]
  /\ acks = [r \in Links |-> <<>>]
  /\ hs = [r \in Links |-> <<>>]
  /\ NoLocks
  /\ codec = NoCodec
  /\ replica_binding = [r \in Links |-> ParseNat(this_port)]

Attached == AttachedAt(0)

InitAttached == Attached /\ todo = Workload(MaxAttachedMut, MaxAttachedWaits, 0, 0)

NextAttached ==
  \/ ClientSet(WaitClient)
  \/ LogAppend(WaitClient)
  \/ FanOut(WaitClient)
  \/ UpdateOffset(WaitClient)
  \/ \E n \in WaitCounts, t \in WaitTimeouts : ClientWait(WaitClient, n, t)
  \/ WaitLen(WaitClient)
  \/ WaitOffset(WaitClient)
  \/ WaitFirstPass(WaitClient)
  \/ WaitRecv(WaitClient)
  \/ WaitDone(WaitClient)
  \/ WaitTimeout(WaitClient)
  \/ \E r \in Links : DrainReplicate(r)
  \/ \E r \in Links : DrainCommand(r)
  \/ \E r \in Links : CmdReply(r)
  \/ \E r \in Links : CmdTimeout(r)
  \/ \E r \in Links : ReplicaLoop(r)

SpecAttached == InitAttached /\ [][NextAttached]_vars

\* The master's threads keep running: a client thread inside request_ack
\* takes its next step, and the deadline of its poll loop passes.  Nothing is
\* assumed of the replicas.
FairAttached ==
  /\ SpecAttached
  /\ WF_vars(WaitOffset(WaitClient))
  /\ WF_vars(WaitFirstPass(WaitClient))
  /\ WF_vars(WaitRecv(WaitClient) \/ WaitDone(WaitClient) \/ WaitTimeout(WaitClient))

----------------------------------------------------------------------------
\* The stream scenario: the clients send XADD and blocking XREAD requests to
\* a master with no replica.

InitStream == Fresh /\ todo = Workload(0, 0, MaxAdds, MaxReads)

NextStream ==
  \/ \E c \in Clients, id_pattern \in AddPatterns : ClientXadd(c, id_pattern)
  \/ \E c \in Clients : LogAppend(c)
  \/ \E c \in Clients : FanOut(c)
  \/ \E c \in Clients : UpdateOffset(c)
  \/ \E c \in Clients, m \in BlockMs : ClientXread(c, m)
  \/ \E c \in Clients : XreadScan(c)
  \/ \E c \in Clients : XreadListen(c)
  \/ \E c \in Clients : XreadWake(c)
  \/ \E c \in Clients : XreadAgain(c)
  \/ \E c \in Clients : XreadTimeout(c)

SpecStream == InitStream /\ [][NextStream]_vars

----------------------------------------------------------------------------
\* The store scenario: one client sends SET, XADD and read requests to a
\* master with no replica, and the clock moves on.

StartTimes == {1}
StoreWorkload(sends, ticks) ==
  [sets |-> 0, waits |-> 0, adds |-> 0, reads |-> 0, sends |-> sends, ticks |-> ticks]

InitStore ==
  /\ \E clock \in StartTimes : FreshAt(clock)
  /\ todo = StoreWorkload(MaxStoreRequests, MaxTicks)

NextStore ==
  \/ \E message \in SetRequests \cup AddRequests \cup ReadRequests :
       ClientCommand(StoreClient, message)
  \/ LogAppend(StoreClient)
  \/ FanOut(StoreClient)
  \/ UpdateOffset(StoreClient)
  \/ Tick

SpecStore == InitStore /\ [][NextStore]_vars

----------------------------------------------------------------------------
\* The replica scenario: a client of the master sends SET requests, a replica
\* attaches and follows the replication stream, and a client of the replica
\* sends requests to it.

ReplicaClient == "q1"
ReplicaWorkload(sends, asks) ==
  [sets |-> 0, waits |-> 0, adds |-> 0, reads |-> 0, sends |-> sends, asks |-> asks]

InitReplica == Fresh /\ todo = ReplicaWorkload(MaxReplicaSets, MaxAsks)

NextReplica ==
  \/ \E message \in SetRequests : ClientCommand(StoreClient, message)
  \/ LogAppend(StoreClient)
  \/ FanOut(StoreClient)
  \/ UpdateOffset(StoreClient)
  \/ ReplicaHandshake(WaitLink)
  \/ MasterPsync(WaitLink)
  \/ SendSync(WaitLink)
  \/ Register(WaitLink)
  \/ DrainReplicate(WaitLink)
  \/ ReplicaSynced(WaitLink)
  \/ ReplicaLoop(WaitLink)
  \/ \E message \in ReplicaRequests : ReplicaClientCommand(ReplicaClient, WaitLink, message)

SpecReplica == InitReplica /\ [][NextReplica]_vars

----------------------------------------------------------------------------
\* The handshake scenario: a replica attaches message by message while a
\* client of the master sends SET requests.

InitHandshake == Fresh /\ todo = ReplicaWorkload(MaxHandshakeSets, 0)

NextHandshake ==
  \/ \E message \in SetRequests : ClientCommand(StoreClient, message)
  \/ LogAppend(StoreClient)
  \/ FanOut(StoreClient)
  \/ UpdateOffset(StoreClient)
  \/ ReplicaPing(WaitLink)
  \/ ReplicaPort(WaitLink)
  \/ ReplicaCapa(WaitLink)
  \/ ReplicaPsync(WaitLink)
  \/ MasterHandshake(WaitLink)
  \/ MasterPsync(WaitLink)
  \/ SendSync(WaitLink)
  \/ Register(WaitLink)
  \/ DrainReplicate(WaitLink)
  \/ ReplicaSynced(WaitLink)
  \/ ReplicaLoop(WaitLink)

SpecHandshake == InitHandshake /\ [][NextHandshake]_vars

----------------------------------------------------------------------------
\* The codec scenario: a well-formed frame is decoded and the value is
\* encoded again.

InitCodec ==
  /\ slots = <<>>
  /\ now = 0
  /\ store = [k \in Keys |-> Absent]
  /\ log = <<>>
  /\ log_bytes = 0
  /\ replicas = <<>>
  /\ regLock = "free"
  /\ pc = [c \in Conns |-> "idle"]
  /\ req = [c \in Conns |-> NoReq]
  /\ responses = [c \in Conns |-> <<>>]
  /\ local = [c \in Clients |-> NoLocal]
  /\ wids = 0
  /\ rx = [c \in Clients |-> <<>>]
  /\ outbox = [r \in Links |-> <<>>]
  /\ cur = [r \in Links |-> NoReq]
  /\ down = [r \in Links |-> <<>>]
  /\ up = [r \in Links |-> <<>>]
  /\ written = [r \in Links |-> <<>>]
  /\ enq = [r \in Links |-> <<>>]
  /\ psync_n = [r \in Links |-> 0]
  /\ rpc = [r \in Links |-> "start"]
  /\ replicated_offset = [r \in Links |-> 0]
  /\ rstore = [r \in Links |-> [k \in Keys |-> Absent]]
  /\ rlog_bytes = [r \in Links |-> 0]
  /\ consumed = [r \in Links |-> <<>>]
  /\ acks = [r \in Links |-> <<>>]
  /\ hs = [r \in Links |-> <<>>]
  /\ todo = Workload(0, 0, 0, 0)
  /\ replica_binding = [r \in Links |-> None]
  /\ NoLocks
  /\ \E b \in Frames : codec = [step |-> "frame", b |-> b]

NextCodec == Decode \/ Encode

SpecCodec == InitCodec /\ [][NextCodec]_vars

----------------------------------------------------------------------------
\* The tags scenario: a client of the master sends requests of any command
\* of RedisServer, a replica attaches message by message (PING, REPLCONF and
\* PSYNC on the master) and follows the replication stream, and a client of
\* the replica sends a request of any command.

TagWorkload(n) ==
  [sets |-> 0, waits |-> 0, adds |-> 0, reads |-> 0, sends |-> n, asks |-> n]

InitTags == Fresh /\ todo = TagWorkload(MaxTagRequests)

NextTags ==
  \/ \E message \in TagRequests : ClientCommand(StoreClient, message)
  \/ LogAppend(StoreClient)
  \/ FanOut(StoreClient)
  \/ UpdateOffset(StoreClient)
  \/ ReplicaPing(WaitLink)
  \/ ReplicaPort(WaitLink)
  \/ ReplicaCapa(WaitLink)
  \/ ReplicaPsync(WaitLink)
  \/ MasterHandshake(WaitLink)
  \/ MasterPsync(WaitLink)
  \/ SendSync(WaitLink)
  \/ Register(WaitLink)
  \/ DrainReplicate(WaitLink)
  \/ ReplicaSynced(WaitLink)
  \/ ReplicaLoop(WaitLink)
  \/ \E message \in AllTagRequests : ReplicaClientCommand(ReplicaClient, WaitLink, message)

SpecTags == InitTags /\ [][NextTags]_vars

----------------------------------------------------------------------------
\* The registry scenario: both replicas are attached and synchronised, the
\* one client sends SET requests, and each replica may go away, which ends
\* its session at the session's next write.

InitFan == Attached /\ todo = Workload(MaxFanMut, 0, 0, 0)

NextFan ==
  \/ ClientSet(WaitClient)
  \/ LogAppend(WaitClient)
  \/ FanOut(WaitClient)
  \/ UpdateOffset(WaitClient)
  \/ \E r \in Links : DrainReplicate(r)
  \/ \E r \in Links : ReplicaLoop(r)
  \/ \E r \in Links : ReplicaCrash(r)

SpecFan == InitFan /\ [][NextFan]_vars

----------------------------------------------------------------------------
\* The two-stream scenario: the streams s and k hold the record 1-1 each
\* (two XADDs have been handled, with no replica), one client sends XADD
\* requests and another a blocking XREAD over both streams.

AddClient == "c1"
ReadClient == "c2"
FirstAdd(key) == Request(<<XADD, key, <<"1", "-", "1">>, <<"f">>, <<"v">>>>)
TwoStreams ==
  insert_stream(insert_stream([k \in Keys |-> Absent], StreamKey, <<"1", "-", "1">>,
                              <<<<<<"f">>, <<"v">>>>>>, 0).value,
                <<"k">>, <<"1", "-", "1">>, <<<<<<"f">>, <<"v">>>>>>, 0).value
MultiAdds ==
  {Request(<<XADD, key, <<"2", "-", "0">>, <<"f">>, <<"v">>>>) : key \in Keys}
MultiReads ==
  {Request(<<XREAD, <<"b","l","o","c","k">>, FormatNat(m), STREAMS, StreamKey, <<"k">>,
             <<"1", "-", "1">>, <<"5", "-", "0">>>>) : m \in BlockMs}

InitMulti ==
  /\ slots = <<>>
  /\ now = 0
  /\ store = TwoStreams
  /\ log = <<FirstAdd(StreamKey), FirstAdd(<<"k">>)>>
  /\ log_bytes = 0
  /\ replicas = <<>>
  /\ regLock = "free"
  /\ pc = [c \in Conns |-> "idle"]
  /\ req = [c \in Conns |-> IF c = AddClient THEN FirstAdd(<<"k">>) ELSE NoReq]
  /\ responses = [c \in Conns |-> IF c = AddClient THEN <<RBulk(<<"1", "-", "1">>)>> ELSE <<>>]
  /\ local = [c \in Clients |-> NoLocal]
  /\ wids = 0
  /\ rx = [c \in Clients |-> <<>>]
  /\ outbox = [r \in Links |-> <<>>]
  /\ cur = [r \in Links |-> NoReq]
  /\ down = [r \in Links |-> <<>>]
  /\ up = [r \in Links |-> <<>>]
  /\ written = [r \in Links |-> <<>>]
  /\ enq = [r \in Links |-> <<>>]
  /\ psync_n = [r \in Links |-> 0]
  /\ rpc = [r \in Links |-> "start"]
  /\ replicated_offset = [r \in Links |-> 0]
  /\ rstore = [r \in Links |-> [k \in Keys |-> Absent]]
  /\ rlog_bytes = [r \in Links |-> 0]
  /\ consumed = [r \in Links |-> <<>>]
  /\ acks = [r \in Links |-> <<>>]
  /\ hs = [r \in Links |-> <<>>]
  /\ NoLocks
  /\ codec = NoCodec
  /\ replica_binding = [r \in Links |-> None]
  /\ todo = [sets |-> 0, waits |-> 0, adds |-> 0, reads |-> MaxMultiReads, sends |-> MaxMultiAdds]

NextMulti ==
  \/ \E message \in MultiAdds : ClientCommand(AddClient, message)
  \/ LogAppend(AddClient)
  \/ FanOut(AddClient)
  \/ UpdateOffset(AddClient)
  \/ \E message \in MultiReads : BlockedXread(ReadClient, message)
  \/ XreadScan(ReadClient)
  \/ XreadListen(ReadClient)
  \/ XreadWake(ReadClient)
  \/ XreadAgain(ReadClient)
  \/ XreadTimeout(ReadClient)

SpecMulti == InitMulti /\ [][NextMulti]_vars

----------------------------------------------------------------------------
\* The PSYNC scenario: two connections send a PSYNC, after the handshake's
\* REPLCONF requests or as their first request, while a client sends SET
\* requests.

PsyncRequests ==
  {psync_request, Request(<<PSYNC, master_replid, <<"0">>>>), Request(<<PSYNC, <<"?">>, <<"0">>>>)}

InitPsync == Fresh /\ todo = Workload(MaxPsyncMut, 0, 0, 0)

NextPsync ==
  \/ ClientSet(WaitClient)
  \/ LogAppend(WaitClient)
  \/ FanOut(WaitClient)
  \/ UpdateOffset(WaitClient)
  \/ \E r \in Links : ReplicaHandshake(r)
  \/ \E r \in Links : BarePsync(r)
  \/ \E r \in Links, request \in PsyncRequests : MasterPsyncOf(r, request)
  \/ \E r \in Links : SendSync(r)
  \/ \E r \in Links : Register(r)
  \/ \E r \in Links : DrainReplicate(r)

SpecPsync == InitPsync /\ [][NextPsync]_vars

----------------------------------------------------------------------------
\* The listener scenario: KVStore::add_listener is applied to a store and a
\* list of keys, some of them missing from the store.

\* a key is missing, or holds a string, an empty stream or a stream of one entry
ListenValues(key) ==
  {Absent, from_string(<<"a">>, None), empty_stream(key), TwoStreams[key]}
ListenStores == {st \in [Keys -> UNION {ListenValues(key) : key \in Keys}] :
                   \A key \in Keys : st[key] \in ListenValues(key)}
ListenKeys == UNION {[1..n -> Keys] : n \in 0..MaxListenKeys}

\* add_listener under the store's write lock, its result kept
Listen ==
  /\ codec.step = "keys"
  /\ \E done \in {add_listener(store, codec.keys, 1)} :
       /\ store' = done.store
       /\ codec' = [step |-> "listened", keys |-> codec.keys, st |-> store,
                    ok |-> done.ok, err |-> done.err]
  /\ UNCHANGED <<hs, replica_binding, lockVars, todo, slots, now, masterLog, replicas, regLock, pc, req, responses,
                 waitVars, linkVars, replicaVars>>

InitListen ==
  /\ slots = <<>>
  /\ now = 0
  /\ store \in ListenStores
  /\ log = <<>>
  /\ log_bytes = 0
  /\ replicas = <<>>
  /\ regLock = "free"
  /\ pc = [c \in Conns |-> "idle"]
  /\ req = [c \in Conns |-> NoReq]
  /\ responses = [c \in Conns |-> <<>>]
  /\ local = [c \in Clients |-> NoLocal]
  /\ wids = 0
  /\ rx = [c \in Clients |-> <<>>]
  /\ outbox = [r \in Links |-> <<>>]
  /\ cur = [r \in Links |-> NoReq]
  /\ down = [r \in Links |-> <<>>]
  /\ up = [r \in Links |-> <<>>]
  /\ written = [r \in Links |-> <<>>]
  /\ enq = [r \in Links |-> <<>>]
  /\ psync_n = [r \in Links |-> 0]
  /\ rpc = [r \in Links |-> "start"]
  /\ replicated_offset = [r \in Links |-> 0]
  /\ rstore = [r \in Links |-> [k \in Keys |-> Absent]]
  /\ rlog_bytes = [r \in Links |-> 0]
  /\ consumed = [r \in Links |-> <<>>]
  /\ acks = [r \in Links |-> <<>>]
  /\ hs = [r \in Links |-> <<>>]
  /\ todo = Workload(0, 0, 0, 0)
  /\ replica_binding = [r \in Links |-> None]
  /\ NoLocks
  /\ \E names \in ListenKeys : codec = [step |-> "keys", keys |-> names]

NextListen == Listen

SpecListen == InitListen /\ [][NextListen]_vars

----------------------------------------------------------------------------
\* The session scenario: the replication thread of a replica (start_replication)
\* against a peer that answers as a master does, or fails to accept, closes
\* the connection or sends other bytes.

SessionWorkload(faults, frames) ==
  [sets |-> 0, waits |-> 0, adds |-> 0, reads |-> 0, faults |-> faults, frames |-> frames]

\* bytes on the wire that the replica has not decoded yet
Raw(b) == [t |-> "Raw", b |-> b]

Waiting == {"ping_sent", "port_sent", "capa_sent", "psync_sent", "loop"}

\* the head of the link has been decoded
Decoded(r) == down[r] # <<>> /\ Head(down[r]).t # "Raw"

\* what a master answers at each point of the session
PeerFrames(at) ==
  CASE at = "ping_sent" -> {<<Raw(encode_message(RString(PONG)))>>}
    [] at \in {"port_sent", "capa_sent"} -> {<<Raw(encode_message(RString(OK)))>>}
    [] at = "psync_sent" ->
         {<<Raw(encode_message(sync_response(master_replid, <<>>)[1])), empty_rdb>>}
    [] at = "loop" ->
         {<<Raw(encode_message(Request(<<SET, <<"k">>, <<"a">>>>)))>>,
          <<Raw(encode_message(Request(<<REPLCONF, GETACK, <<"*">>>>)))>>}

\* the end of the stream (read_line returns 0), an unknown type character, an
\* array header whose length is not a number, a reply that is not expected
BadFrames ==
  {<<>>, Line(<<"?">>), Line(<<"*", "x">>), Line(<<"+", "N", "O">>)}

PeerReply(r) ==
  /\ rpc[r] \in Waiting
  /\ down[r] = <<>>
  /\ rpc[r] = "loop" => todo.frames > 0
  /\ todo' = IF rpc[r] = "loop" THEN [todo EXCEPT !.frames = @ - 1] ELSE todo
  /\ \E frames \in PeerFrames(rpc[r]) : down' = [down EXCEPT ![r] = frames]
  /\ UNCHANGED <<auxVars, slots, masterStore, masterLog, replicas, regLock, pc, req, responses, waitVars,
                 outbox, cur, up, written, enq, psync_n, replicaVars>>

PeerFault(r) ==
  /\ rpc[r] \in Waiting
  /\ down[r] = <<>>
  /\ todo.faults > 0
  /\ todo' = [todo EXCEPT !.faults = @ - 1]
  /\ \E b \in BadFrames : down' = [down EXCEPT ![r] = <<Raw(b)>>]
  /\ UNCHANGED <<auxVars, slots, masterStore, masterLog, replicas, regLock, pc, req, responses, waitVars,
                 outbox, cur, up, written, enq, psync_n, replicaVars>>

\* ReplicaClient::new: the connection is refused
ConnectFails(r) ==
  /\ rpc[r] = "start"
  /\ todo.faults > 0
  /\ todo' = [todo EXCEPT !.faults = @ - 1]
  /\ rpc' = [rpc EXCEPT ![r] = "failed"]
  /\ UNCHANGED <<auxVars, slots, masterStore, masterLog, replicas, regLock, pc, req, responses, waitVars,
                 linkVars, replicated_offset, rstore, rlog_bytes, consumed, acks>>

\* decode_message on the bytes read from the master: a bail! is the Err of
\* replica_master_connection, a panic ends the thread
SessionRead(r) ==
  /\ rpc[r] \in Waiting
  /\ down[r] # <<>>
  /\ Head(down[r]).t = "Raw"
  /\ \E done \in {decode_message(Head(down[r]).b)} :
       IF done.res = "ok" /\ done.v.some
       THEN /\ down' = [down EXCEPT ![r] = <<done.v.v>> \o Tail(@)]
            /\ UNCHANGED rpc
       ELSE /\ down' = [down EXCEPT ![r] = Tail(@)]
            /\ rpc' = [rpc EXCEPT ![r] = IF done.res = "panic" THEN "panicked" ELSE "failed"]
  /\ UNCHANGED <<auxVars, todo, slots, masterStore, masterLog, replicas, regLock, pc, req, responses, waitVars,
                 outbox, cur, up, written, enq, psync_n, replicated_offset, rstore, rlog_bytes,
                 consumed, acks>>

\* psync: the reply is not a FULLRESYNC (bail!)
PsyncRefused(r) ==
  /\ rpc[r] = "psync_sent"
  /\ Decoded(r)
  /\ ~(/\ Head(down[r]).t = "String"
       /\ starts_with(to_uppercase(Head(down[r]).s), FULLRESYNC \o <<" ">>))
  /\ down' = [down EXCEPT ![r] = Tail(@)]
  /\ rpc' = [rpc EXCEPT ![r] = "failed"]
  /\ UNCHANGED <<auxVars, todo, slots, masterStore, masterLog, replicas, regLock, pc, req, responses, waitVars,
                 outbox, cur, up, written, enq, psync_n, replicated_offset, rstore, rlog_bytes,
                 consumed, acks>>

\* start_replication: the Err is printed, the thread sleeps and the loop calls
\* replica_master_connection again, on the same ReplicaConnection and with a
\* new connection
Restart(r) ==
  /\ rpc[r] = "failed"
  /\ rpc' = [rpc EXCEPT ![r] = "start"]
  /\ down' = [down EXCEPT ![r] = <<>>]
  /\ up' = [up EXCEPT ![r] = <<>>]
  /\ hs' = [hs EXCEPT ![r] = <<>>]
  /\ UNCHANGED <<codec, replica_binding, lockVars, todo, slots, masterStore, masterLog, replicas, regLock, pc, req,
                 responses, waitVars, outbox, cur, written, enq, psync_n, replicated_offset, rstore,
                 rlog_bytes, consumed, acks>>

InitSession == Fresh /\ todo = SessionWorkload(MaxSessionFaults, MaxSessionFrames)

NextSession ==
  \/ ConnectFails(WaitLink)
  \/ ReplicaPing(WaitLink)
  \/ PeerReply(WaitLink)
  \/ PeerFault(WaitLink)
  \/ SessionRead(WaitLink)
  \/ Decoded(WaitLink) /\ ReplicaPort(WaitLink)
  \/ Decoded(WaitLink) /\ ReplicaCapa(WaitLink)
  \/ Decoded(WaitLink) /\ ReplicaPsync(WaitLink)
  \/ PsyncRefused(WaitLink)
  \/ ReplicaSynced(WaitLink)
  \/ Decoded(WaitLink) /\ ReplicaLoop(WaitLink)
  \/ Restart(WaitLink)

SpecSession == InitSession /\ [][NextSession]_vars

\* the replication thread keeps running: its sleep ends and it connects again
FairSession ==
  /\ SpecSession
  /\ WF_vars(Restart(WaitLink))
  /\ WF_vars(ReplicaPing(WaitLink))

----------------------------------------------------------------------------
\* The two-writer scenario: both replicas are attached and synchronised, two
\* clients send SET requests on the same key with different values, and the
\* replica r1 follows the replication stream.

InitRace == Attached /\ todo = Workload(MaxRaceSets, 0, 0, 0)

NextRace ==
  \/ \E c \in Clients : ClientSet(c)
  \/ \E c \in Clients : LogAppend(c)
  \/ \E c \in Clients : FanOut(c)
  \/ \E c \in Clients : UpdateOffset(c)
  \/ DrainReplicate(WaitLink)
  \/ ReplicaLoop(WaitLink)

SpecRace == InitRace /\ [][NextRace]_vars

----------------------------------------------------------------------------
\* The convergence scenario: both replicas are attached and synchronised
\* before the first request, one client sends SET and XADD requests, the
\* clock moves on, and the replica r1 follows the replication stream.

ConvergeRequests ==
  {Request(<<SET, <<"k">>, <<"a">>>>),
   Request(<<XADD, StreamKey, <<"*">>, <<"f">>, <<"v">>>>),
   Request(<<XADD, StreamKey, <<"1", "-", "*">>, <<"f">>, <<"v">>>>),
   Request(<<XADD, StreamKey, <<"0", "-", "0">>, <<"f">>, <<"v">>>>),
   Request(<<XADD, <<"k">>, <<"1", "-", "1">>, <<"f">>, <<"v">>>>)}

InitConverge ==
  /\ \E clock \in StartTimes \ {0} : AttachedAt(clock)
  /\ todo = StoreWorkload(MaxConvergeRequests, MaxConvergeTicks)

NextConverge ==
  \/ \E message \in ConvergeRequests : ClientCommand(StoreClient, message)
  \/ LogAppend(StoreClient)
  \/ FanOut(StoreClient)
  \/ UpdateOffset(StoreClient)
  \/ Tick
  \/ DrainReplicate(WaitLink)
  \/ ReplicaLoop(WaitLink)

SpecConverge == InitConverge /\ [][NextConverge]_vars

----------------------------------------------------------------------------
\* The reconnect scenario: the master has handled some mutating requests
\* while a replica followed it; the replica's session has ended and its
\* replication thread connects again, with the store it had.

\* the store after RedisServer::handle_command has run on each frame in order
RECURSIVE apply_log(_, _, _)
apply_log(st, frames, clock) ==
  IF frames = <<>> THEN st
  ELSE apply_log(handle_command(st, parse_command(Head(frames)).cmd,
                                parse_command(Head(frames)).params, clock).store,
                 Tail(frames), clock)

ReplayRequests ==
  {Request(<<SET, <<"k">>, <<"a">>>>), Request(<<SET, <<"k">>, <<"b">>>>),
   Request(<<XADD, StreamKey, <<"1", "-", "1">>, <<"f">>, <<"v">>>>),
   Request(<<XADD, StreamKey, <<"2", "-", "0">>, <<"f">>, <<"v">>>>),
   Request(<<XADD, StreamKey, <<"1", "-", "*">>, <<"f">>, <<"v">>>>),
   Request(<<XADD, StreamKey, <<"*">>, <<"f">>, <<"v">>>>)}
ReplayLogs == UNION {[1..n -> ReplayRequests] : n \in 1..MaxReplayFrames}

InitReconnect ==
  \E frames \in ReplayLogs :
     /\ slots = <<>>
     /\ now \in StartTimes \ {0}
     /\ store = apply_log([k \in Keys |-> Absent], frames, now)
     /\ log = frames
     /\ log_bytes = SumSeq([i \in DOMAIN frames |-> DecodedSize(frames[i])])
     /\ replicas = <<>>
     /\ regLock = "free"
     /\ pc = [c \in Conns |-> "idle"]
     /\ req = [c \in Conns |-> NoReq]
     /\ responses = [c \in Conns |-> <<>>]
     /\ local = [c \in Clients |-> NoLocal]
     /\ wids = 0
     /\ rx = [c \in Clients |-> <<>>]
     /\ outbox = [r \in Links |-> <<>>]
     /\ cur = [r \in Links |-> NoReq]
     /\ down = [r \in Links |-> <<>>]
     /\ up = [r \in Links |-> <<>>]
     /\ written = [r \in Links |-> <<>>]
     /\ enq = [r \in Links |-> <<>>]
     /\ psync_n = [r \in Links |-> 0]
     /\ rpc = [r \in Links |-> "start"]
     /\ replicated_offset = [r \in Links |-> log_bytes]
     /\ rstore = [r \in Links |-> store]
     /\ rlog_bytes = [r \in Links |-> 0]
     /\ consumed = [r \in Links |-> <<>>]
     /\ acks = [r \in Links |-> <<>>]
     /\ hs = [r \in Links |-> <<>>]
     /\ NoLocks
     /\ codec = NoCodec
     /\ replica_binding = [r \in Links |-> None]
     /\ todo = Workload(0, 0, 0, 0)

NextReconnect ==
  \/ ReplicaHandshake(WaitLink)
  \/ MasterPsync(WaitLink)
  \/ SendSync(WaitLink)
  \/ Register(WaitLink)
  \/ ReplicaSynced(WaitLink)
  \/ ReplicaLoop(WaitLink)

SpecReconnect == InitReconnect /\ [][NextReconnect]_vars

----------------------------------------------------------------------------
\* The lock scenario: the handlers reduced to the lock operations they make,
\* in the order the code makes them.  A guard bound to a name (or a
\* temporary whose statement takes another lock) is alive from Guard to
\* Drop; a temporary guard whose statement takes no other lock is taken and
\* dropped in one step.

Guard(l, m) == [k |-> "guard", l |-> l, m |-> m]
Temp(l, m) == [k |-> "temp", l |-> l, m |-> m]
Drop(l) == [k |-> "drop", l |-> l, m |-> ""]
Other(k) == [k |-> k, l |-> "", m |-> ""]

\* send_replicas: the log's write guard in its own block, then the
\* registry's write guard to the end of the function, the log's write guard
\* again inside it for log_bytes
send_replicas_locks ==
  <<Temp("log", "w"), Guard("registry", "w"), Temp("log", "w"), Drop("registry")>>

\* a request_ack that kept the log's read guard alive to its return
request_ack_log_held ==
  <<Guard("log", "r"), Guard("registry", "w"), Other("poll"), Drop("registry"), Drop("log")>>

\* request_ack: log_bytes read under a temporary read guard, then the
\* registry's write guard from before the first pass to the return
request_ack_locks ==
  <<Temp("log", "r"), Guard("registry", "w"), Other("poll"), Drop("registry")>>

\* WAIT: the log's emptiness under a temporary read guard (dropped at the
\* end of the if's condition), then the registry's length or request_ack
wait_locks ==
  { <<Temp("log", "r"), Temp("registry", "r")>>,
    <<Temp("log", "r")>> \o request_ack_locks }

\* PSYNC clones the log under a temporary read guard; the session then
\* registers under the registry's write guard
psync_locks == <<Temp("log", "r"), Temp("registry", "w")>>

\* INFO replication reads log_bytes
info_locks == <<Temp("log", "r")>>

\* XADD: insert_stream under the store's write guard, the listeners notified
\* by add_entry under it; then send_replicas
xadd_locks ==
  <<Guard("store", "w"), Other("notify"), Drop("store")>> \o send_replicas_locks

\* XREAD with BLOCK: the ids and the existing values under read guards,
\* add_listener under a write guard, then the slot's own mutex and the wait
\* on its Condvar; the values are read again after the event
block_xread_locks(t) ==
  <<Temp("store", "r"), Temp("store", "r"), Guard("store", "w"), Other("listen"), Drop("store"),
    Guard(t, "w"), Other("wait"), Drop(t), Temp("store", "r")>>

Programs(t) ==
  CASE t = "xadd" -> {xadd_locks}
    [] t = "wait" -> wait_locks
    [] t = "psync" -> {psync_locks}
    [] t = "info" -> {info_locks}
    [] OTHER -> {block_xread_locks(t)}

AtStep(t) == IF lk[t].at \in DOMAIN lk[t].prog THEN lk[t].prog[lk[t].at] ELSE Other("none")

\* RwLock / Mutex: a read guard is given unless a write guard is alive, a
\* write guard (and a Mutex) only when no guard is alive
Unavailable(l, m) ==
  IF m = "r" THEN \E h \in held[l] : h.m = "w" ELSE held[l] # {}

\* the step done: the next one, or the handler has returned
Advance(t) ==
  IF lk[t].at = Len(lk[t].prog) THEN Idle ELSE [lk[t] EXCEPT !.at = @ + 1]

\* a connection's thread starts a handler
Begin(t) ==
  /\ lk[t].at = 0
  /\ \E prog \in Programs(t) : lk' = [lk EXCEPT ![t] = [Idle EXCEPT !.prog = prog, !.at = 1]]
  /\ UNCHANGED held
  /\ UNCHANGED <<hs, codec, replica_binding, todo, slots, masterStore, masterLog, replicas, regLock, pc, req,
                 responses, waitVars, linkVars, replicaVars>>

\* lock.read() / lock.write() whose guard is dropped at the end of the statement
TempGuard(t) ==
  /\ AtStep(t).k = "temp"
  /\ ~Unavailable(AtStep(t).l, AtStep(t).m)
  /\ lk' = [lk EXCEPT ![t] = Advance(t)]
  /\ UNCHANGED held
  /\ UNCHANGED <<hs, codec, replica_binding, todo, slots, masterStore, masterLog, replicas, regLock, pc, req,
                 responses, waitVars, linkVars, replicaVars>>

\* lock.read() / lock.write() / lock.lock() whose guard stays alive
TakeGuard(t) ==
  /\ AtStep(t).k = "guard"
  /\ ~Unavailable(AtStep(t).l, AtStep(t).m)
  /\ held' = [held EXCEPT ![AtStep(t).l] = @ \cup {[t |-> t, m |-> AtStep(t).m]}]
  /\ lk' = [lk EXCEPT ![t] = Advance(t)]
  /\ UNCHANGED <<hs, codec, replica_binding, todo, slots, masterStore, masterLog, replicas, regLock, pc, req,
                 responses, waitVars, linkVars, replicaVars>>

\* the guard goes out of scope
DropGuard(t) ==
  /\ AtStep(t).k = "drop"
  /\ held' = [held EXCEPT ![AtStep(t).l] = {h \in @ : h.t # t}]
  /\ lk' = [lk EXCEPT ![t] = Advance(t)]
  /\ UNCHANGED <<hs, codec, replica_binding, todo, slots, masterStore, masterLog, replicas, regLock, pc, req,
                 responses, waitVars, linkVars, replicaVars>>

\* request_ack's polling loop, the registry's guard alive
Poll(t) ==
  /\ AtStep(t).k = "poll"
  /\ lk' = [lk EXCEPT ![t] = Advance(t)]
  /\ UNCHANGED held
  /\ UNCHANGED <<hs, codec, replica_binding, todo, slots, masterStore, masterLog, replicas, regLock, pc, req,
                 responses, waitVars, linkVars, replicaVars>>

\* add_listener: the slot is in the stream's listeners
AddListener(t) ==
  /\ AtStep(t).k = "listen"
  /\ lk' = [lk EXCEPT ![t] = [Advance(t) EXCEPT !.listening = TRUE]]
  /\ UNCHANGED held
  /\ UNCHANGED <<hs, codec, replica_binding, todo, slots, masterStore, masterLog, replicas, regLock, pc, req,
                 responses, waitVars, linkVars, replicaVars>>

\* the listeners add_entry has yet to notify
Unnotified(t) == {w \in Waiters \ lk[t].seen : lk[w].listening}

\* add_entry's retain_mut: each live listener's mutex is locked, the event
\* stored and the Condvar notified, the store's write guard alive
Notify(t) ==
  /\ AtStep(t).k = "notify"
  /\ IF Unnotified(t) = {}
     THEN lk' = [lk EXCEPT ![t] = Advance(t)]
     ELSE \E w \in Unnotified(t) :
            /\ held[w] = {}
            /\ lk' = [lk EXCEPT ![t].seen = @ \cup {w}, ![w].event = TRUE]
  /\ UNCHANGED held
  /\ UNCHANGED <<hs, codec, replica_binding, todo, slots, masterStore, masterLog, replicas, regLock, pc, req,
                 responses, waitVars, linkVars, replicaVars>>

\* block_xread's loop: with an event it is left; without one
\* wait_timeout_while gives the mutex up and the thread sleeps
Sleep(t) ==
  /\ AtStep(t).k = "wait"
  /\ ~lk[t].asleep
  /\ IF lk[t].event
     THEN /\ lk' = [lk EXCEPT ![t] = Advance(t)]
          /\ UNCHANGED held
     ELSE /\ lk' = [lk EXCEPT ![t].asleep = TRUE]
          /\ held' = [held EXCEPT ![t] = {}]
  /\ UNCHANGED <<hs, codec, replica_binding, todo, slots, masterStore, masterLog, replicas, regLock, pc, req,
                 responses, waitVars, linkVars, replicaVars>>

\* the wait ends, by the notification or by the timeout: the mutex is taken again
Wake(t) ==
  /\ AtStep(t).k = "wait"
  /\ lk[t].asleep
  /\ held[t] = {}
  /\ held' = [held EXCEPT ![t] = {[t |-> t, m |-> "w"]}]
  /\ lk' = [lk EXCEPT ![t] = Advance(t)]
  /\ UNCHANGED <<hs, codec, replica_binding, todo, slots, masterStore, masterLog, replicas, regLock, pc, req,
                 responses, waitVars, linkVars, replicaVars>>

InitLocks ==
  /\ slots = <<>>
  /\ now = 0
  /\ store = [k \in Keys |-> Absent]
  /\ log = <<>>
  /\ log_bytes = 0
  /\ replicas = <<>>
  /\ regLock = "free"
  /\ pc = [c \in Conns |-> "idle"]
  /\ req = [c \in Conns |-> NoReq]
  /\ responses = [c \in Conns |-> <<>>]
  /\ local = [c \in Clients |-> NoLocal]
  /\ wids = 0
  /\ rx = [c \in Clients |-> <<>>]
  /\ outbox = [r \in Links |-> <<>>]
  /\ cur = [r \in Links |-> NoReq]
  /\ down = [r \in Links |-> <<>>]
  /\ up = [r \in Links |-> <<>>]
  /\ written = [r \in Links |-> <<>>]
  /\ enq = [r \in Links |-> <<>>]
  /\ psync_n = [r \in Links |-> 0]
  /\ rpc = [r \in Links |-> "start"]
  /\ replicated_offset = [r \in Links |-> 0]
  /\ rstore = [r \in Links |-> [k \in Keys |-> Absent]]
  /\ rlog_bytes = [r \in Links |-> 0]
  /\ consumed = [r \in Links |-> <<>>]
  /\ acks = [r \in Links |-> <<>>]
  /\ hs = [r \in Links |-> <<>>]
  /\ todo = Workload(0, 0, 0, 0)
  /\ replica_binding = [r \in Links |-> None]
  /\ Unlocked
  /\ codec = NoCodec

NextLocks ==
  \E t \in Threads :
    \/ Begin(t)
    \/ TempGuard(t)
    \/ TakeGuard(t)
    \/ DropGuard(t)
    \/ Poll(t)
    \/ AddListener(t)
    \/ Notify(t)
    \/ Sleep(t)
    \/ Wake(t)

SpecLocks == InitLocks /\ [][NextLocks]_vars

----------------------------------------------------------------------------
\* The SET scenario: Command::SET applied on its own to a key, a value and
\* what follows them, the text PX in several letter cases among the keys
\* and the values.

SetKeys == Keys \cup {<<"p", "x">>}
SetValues == {<<"a">>, <<"p", "x">>, <<"P", "x">>}
SetOptions == {<<>>, <<PX, FormatNat(PxMs)>>, <<<<"p", "x">>>>, <<<<"p", "X">>, <<"a">>>>}
SetStores == {[key \in Keys |-> Absent],
              [key \in Keys |-> IF key = <<"k">> THEN from_string(<<"b">>, None) ELSE Absent]}

\* handle_command for a SET with these parameters, its outcome kept
SetCommand ==
  /\ codec.step = "params"
  /\ \E done \in {handle_set(store, codec.params, now)} :
       /\ store' = done.store
       /\ codec' = [step |-> "set", params |-> codec.params, st |-> store, res |-> done.res]
  /\ UNCHANGED <<hs, replica_binding, lockVars, todo, slots, now, masterLog, replicas, regLock, pc, req,
                 responses, waitVars, linkVars, replicaVars>>

InitSet ==
  /\ slots = <<>>
  /\ now \in StartTimes
  /\ store \in SetStores
  /\ log = <<>>
  /\ log_bytes = 0
  /\ replicas = <<>>
  /\ regLock = "free"
  /\ pc = [c \in Conns |-> "idle"]
  /\ req = [c \in Conns |-> NoReq]
  /\ responses = [c \in Conns |-> <<>>]
  /\ local = [c \in Clients |-> NoLocal]
  /\ wids = 0
  /\ rx = [c \in Clients |-> <<>>]
  /\ outbox = [r \in Links |-> <<>>]
  /\ cur = [r \in Links |-> NoReq]
  /\ down = [r \in Links |-> <<>>]
  /\ up = [r \in Links |-> <<>>]
  /\ written = [r \in Links |-> <<>>]
  /\ enq = [r \in Links |-> <<>>]
  /\ psync_n = [r \in Links |-> 0]
  /\ rpc = [r \in Links |-> "start"]
  /\ replicated_offset = [r \in Links |-> 0]
  /\ rstore = [r \in Links |-> [k \in Keys |-> Absent]]
  /\ rlog_bytes = [r \in Links |-> 0]
  /\ consumed = [r \in Links |-> <<>>]
  /\ acks = [r \in Links |-> <<>>]
  /\ hs = [r \in Links |-> <<>>]
  /\ todo = Workload(0, 0, 0, 0)
  /\ replica_binding = [r \in Links |-> None]
  /\ NoLocks
  /\ \E k \in SetKeys, v \in SetValues, set_options \in SetOptions :
       codec = [step |-> "params", params |-> <<k, v>> \o set_options]

NextSet == SetCommand

SpecSet == InitSet /\ [][NextSet]_vars

----------------------------------------------------------------------------
\* Properties.

IsRequest(m, cmd) == parse_command(m).ok /\ parse_command(m).cmd = cmd
InSendReplicas(c) == pc[c] \in {"fanout", "bytes"}
Occurrences(x, s) == Cardinality({i \in 1..Len(s) : s[i] = x})

\* s can be had from t by leaving elements out
RECURSIVE IsSubsequence(_, _)
IsSubsequence(s, t) ==
  IF Len(s) = 0 THEN TRUE
  ELSE IF Len(t) = 0 THEN FALSE
  ELSE IF Head(s) = Head(t) THEN IsSubsequence(Tail(s), Tail(t))
  ELSE IsSubsequence(s, Tail(t))

\* C1: whenever no client thread is inside send_replicas, log_bytes is the
\* sum of the encoded sizes of all the frames of the log, whether or not a
\* replica is attached.
C1_LogBytesIsLogSize ==
  (\A c \in Clients : ~InSendReplicas(c)) => log_bytes = LogSize(log)

\* C2: with two clients sending mutating requests concurrently, the frames
\* enqueued for a replica are in the order of their append to the log.
C2_EnqueuedInLogOrder ==
  \A r \in Links : IsSubsequence(enq[r], log)

\* C3: nothing is written to a replica before its PSYNC is answered; once it
\* is, what was written is FULLRESYNC, the empty snapshot, the n frames the
\* log held when the PSYNC was handled, in log order, and after them only
\* frames taken from the session's outbox, in their order.
C3_ReplayBeforeLive ==
  \A r \in Links :
    /\ pc[r] \in {"idle", "psync_send"} => written[r] = <<>>
    /\ pc[r] \in {"register", "drain"} =>
         LET n == psync_n[r]
         IN /\ Len(written[r]) >= 2 + n
            /\ written[r][1] = RString(FULLRESYNC \o <<" ">> \o master_replid \o <<" ", "0">>)
            /\ written[r][2] = RFile(RDB_EMPTY_LEN)
            /\ SubSeq(written[r], 3, 2 + n) = SubSeq(log, 1, n)
            /\ SubSeq(written[r], 3 + n, Len(written[r]))
                 = SubSeq(enq[r], 1, Len(enq[r]) - Len(outbox[r]))

\* a replica attached while the log held a frame, and a later frame has been
\* written to it from its outbox
C3_Witness ==
  \E r \in Links : /\ pc[r] = "drain"
                   /\ psync_n[r] >= 1
                   /\ Len(written[r]) > 2 + psync_n[r]

\* C4: once a replica is registered and no client thread is inside
\* send_replicas, every frame of the log has reached the replica exactly
\* once, in the replay or as a live Replicate message.
C4_ExactlyOnce ==
  \A r \in Links :
    (pc[r] = "drain" /\ \A c \in Clients : ~InSendReplicas(c)) =>
      \A i \in 1..Len(log) :
        Occurrences(log[i], SubSeq(log, 1, psync_n[r]) \o enq[r]) = Occurrences(log[i], log)

\* C5: a blocking XREAD is answered Null only if no record with an id above
\* the resolved `$` has been added to the stream when the answer is made.
C5_NullOnlyIfNothingAdded ==
  [][\A c \in Clients :
       (pc[c] = "xread_wait" /\ pc'[c] = "idle" /\ responses'[c] = <<RNull>>) =>
         xread_values(store, xread_keys(req[c]), local[c].key_id_pairs).v = RNull]_vars

\* C6: the first pass of WAIT sends a GETACK only to the replicas whose last
\* acknowledged offset is below the master offset: a replica whose last
\* acknowledged offset is at or above it is counted there.
C6_FirstPassCountsCaughtUp ==
  [][\A c \in Clients :
       (pc[c] = "wait_lock" /\ pc'[c] = "wait_poll") =>
         \A i \in local'[c].requested : replicas[i].offset < local'[c].master_offset]_vars

\* C7: a WAIT read while the log is empty takes the short path, whatever n
\* and t are: its next step is the reply, the reply is the size of the
\* registry, and no message is put on any replica's outbox.
C7_EmptyLogWait ==
  [][\A c \in Clients :
       /\ (pc[c] = "idle" /\ pc'[c] # "idle" /\ IsRequest(req'[c], WAIT) /\ log = <<>>)
            => pc'[c] = "wait_len"
       /\ (pc[c] = "wait_len" /\ pc'[c] # "wait_len")
            => /\ pc'[c] = "idle"
               /\ responses'[c] = <<RInt(Len(replicas))>>
               /\ outbox' = outbox]_vars

\* WAIT 2 was answered 1 on an empty log with one replica registered
C7_Witness ==
  /\ pc[WaitClient] = "idle"
  /\ IsRequest(req[WaitClient], WAIT)
  /\ required_replicas(req[WaitClient]) = 2
  /\ log = <<>>
  /\ Len(replicas) = 1
  /\ responses[WaitClient] = <<RInt(1)>>

\* C8: a WAIT on a non-empty log counts no replica twice, counts no more
\* than n and no more than the registered replicas, leaves its poll loop only
\* with n replicas counted or on the timeout, answers its count, and always
\* returns, whatever the replicas do.
C8_WaitReturns ==
  /\ [](\A c \in Clients :
          pc[c] = "wait_poll" =>
            LET counted == local[c].counted
            IN /\ local[c].replicated = Len(counted)
               /\ \A i, j \in 1..Len(counted) : i # j => counted[i] # counted[j]
               /\ \A i \in 1..Len(counted) : counted[i] \in 1..Len(replicas)
               /\ local[c].replicated <= Len(replicas)
               /\ local[c].replicated <= required_replicas(req[c]))
  /\ [][\A c \in Clients :
          (pc[c] = "wait_poll" /\ pc'[c] # "wait_poll") =>
            /\ pc'[c] = "idle"
            /\ responses'[c] = <<RInt(local[c].replicated)>>
            /\ (local[c].replicated >= required_replicas(req[c]) \/ rx[c] = <<>>)]_vars
  /\ \A c \in Clients : (pc[c] = "wait_offset") ~> (pc[c] = "idle")

\* WAIT 2 on a non-empty log was answered 1: one replica acknowledged, the
\* other did not answer before the timeout
C8_Witness ==
  /\ pc[WaitClient] = "idle"
  /\ IsRequest(req[WaitClient], WAIT)
  /\ required_replicas(req[WaitClient]) = 2
  /\ log # <<>>
  /\ Len(replicas) = 2
  /\ Cardinality({i \in 1..2 : replicas[i].offset = log_bytes}) = 1
  /\ Cardinality({i \in 1..2 : replicas[i].offset < log_bytes}) = 1
  /\ responses[WaitClient] = <<RInt(1)>>

\* C9: a replica's replicated_offset is the sum of the encoded sizes of the
\* frames it has read since its PSYNC (0 when it has read none), GETACK
\* frames included, and each ACK carries the sum of the frames read before
\* the GETACK it answers.
C9_OffsetIsBytesRead ==
  \A r \in Links :
    /\ replicated_offset[r] = LogSize(consumed[r])
    /\ \A i \in 1..Len(acks[r]) :
         /\ IsRequest(consumed[r][acks[r][i].at], REPLCONF)
         /\ acks[r][i].reply =
              Request(<<REPLCONF, ACK,
                        FormatNat(LogSize(SubSeq(consumed[r], 1, acks[r][i].at - 1)))>>)

\* a replica has read a SET frame and then a GETACK, and has answered it
C9_Witness ==
  \E r \in Links : /\ Len(acks[r]) >= 1
                   /\ acks[r][1].at >= 2
                   /\ Len(consumed[r]) >= acks[r][1].at
                   /\ replicated_offset[r] > 0

\* C10: with two replicas attached and no earlier mutation, once the master
\* has handled one SET and both replicas have read its frame, the
\* master_repl_offset each replica reports in INFO REPLICATION is the
\* master's log_bytes.
C10_ReplicaInfoOffset ==
  (/\ pc[WaitClient] = "idle"
   /\ Len(log) = 1
   /\ \A r \in Links : outbox[r] = <<>> /\ consumed[r] = log)
  => \A r \in Links :
       info_replication(FALSE, master_replid, rlog_bytes[r]).master_repl_offset
         = FormatNat(log_bytes)

----------------------------------------------------------------------------
\* The store scenario's claims.

\* the records of a key's stream (none when the key holds no stream)
records(st, key) == IF st[key] # Absent /\ st[key].kind = "stream" THEN st[key].entries ELSE <<>>

\* the id of the last record
top_item(st, key) ==
  IF Len(records(st, key)) = 0 THEN None ELSE Some(records(st, key)[Len(records(st, key))].id)

\* the step is the store client's request of this command
Handles(cmd) ==
  /\ pc[StoreClient] = "idle"
  /\ todo'.sends < todo.sends
  /\ parse_command(req'[StoreClient]).cmd = cmd

\* a-b < c-d, on the numbers
Before(a, b) == a[1] < b[1] \/ (a[1] = b[1] /\ a[2] < b[2])

\* the id the rules give for a pattern of PatternsOf, after the last id
Resolved(pattern, last, clock) ==
  CASE pattern = <<"*">> ->
         IF last.some THEN <<last.v[1], last.v[2] + 1>> ELSE <<clock, 0>>
    [] pattern = <<"0", "-", "*">> ->
         IF last.some /\ last.v[1] = 0 THEN <<0, last.v[2] + 1>> ELSE <<0, 1>>
    [] pattern = <<"1", "-", "*">> ->
         IF last.some /\ last.v[1] = 1 THEN <<1, last.v[2] + 1>> ELSE <<1, 0>>
    [] pattern = <<"0", "-", "0">> -> <<0, 0>>
    [] pattern = <<"0", "-", "1">> -> <<0, 1>>
    [] pattern = <<"1", "-", "1">> -> <<1, 1>>
    [] pattern = <<"1">> -> <<1, 0>>

C11_Increasing ==
  \A k \in Keys :
    \A i \in 1..(Len(records(store, k)) - 1) :
      Before(records(store, k)[i].id, records(store, k)[i + 1].id)

C11_Refused ==
  Handles(XADD) =>
    LET params == parse_command(req'[StoreClient]).params
        key == params[1]
        last == top_item(store, key)
        id == Resolved(params[2], last, now)
    IN (/\ store[key] = Absent \/ store[key].kind = "stream"
        /\ \/ ~Before(<<0, 0>>, id)
           \/ last.some /\ ~Before(last.v, id))
       => /\ Len(responses'[StoreClient]) = 1
          /\ responses'[StoreClient][1].t = "Error"
          /\ records(store', key) = records(store, key)

\* C11: in every reachable state the records of each stream are strictly
\* increasing by id, and an XADD whose resolved id is not above the stream's
\* last id, or not above 0-0, is answered with an error and appends no
\* record.
C11_StrictlyIncreasing == []C11_Increasing /\ [][C11_Refused]_vars

\* a stream holds a record and a second XADD, of an id that is not above
\* the first one, has been answered with the error
C11_Witness ==
  /\ Len(records(store, StreamKey)) = 1
  /\ parse_command(req[StoreClient]).cmd = XADD
  /\ responses[StoreClient] = <<RError(ERR_ID_SMALLER)>>

\* C12: the id an accepted XADD stores and returns is the one the rules
\* give: `*` gives (now, 0) on an empty stream and (T, S+1) after (T, S);
\* `T-*` gives (T, last.seq + 1) when the last record's time is T, else
\* (T, 0), or (T, 1) for T = 0; a-b gives (a, b); a bare a gives (a, 0).
\* And in every state, each pattern resolves to that id.
C12_Resolves ==
  \A p \in PatternsOf :
    /\ new_id_of(p, top_item(store, StreamKey), now).some
    /\ new_id_of(p, top_item(store, StreamKey), now).v = Resolved(p, top_item(store, StreamKey), now)

C12_Stored ==
  (Handles(XADD) /\ Len(records(store', StreamKey)) > Len(records(store, StreamKey)))
  => LET params == parse_command(req'[StoreClient]).params
         id == Resolved(params[2], top_item(store, StreamKey), now)
     IN /\ top_item(store', StreamKey) = Some(id)
        /\ responses'[StoreClient] = <<RBulk(FormatNat(id[1]) \o <<"-">> \o FormatNat(id[2]))>>

C12_IdResolution == []C12_Resolves /\ [][C12_Stored]_vars

\* `1-*` after the record 1-0 has stored 1-1
C12_Witness ==
  /\ Len(records(store, StreamKey)) = 2
  /\ records(store, StreamKey)[1].id = <<1, 0>>
  /\ records(store, StreamKey)[2].id = <<1, 1>>
  /\ req[StoreClient] = Request(<<XADD, StreamKey, <<"1", "-", "*">>, <<"f">>, <<"v">>>>)
  /\ responses[StoreClient] = <<RBulk(<<"1", "-", "1">>)>>

\* the store client's request names a key that holds a string entry with an
\* expiry
OnExpiring(cmd) ==
  /\ Handles(cmd)
  /\ Len(parse_command(req'[StoreClient]).params) = 1
  /\ store[parse_command(req'[StoreClient]).params[1]].kind = "string"
  /\ store[parse_command(req'[StoreClient]).params[1]].valid_until.some

C13_Step ==
  LET entry == store[parse_command(req'[StoreClient]).params[1]]
  IN /\ (Handles(SET) /\ req'[StoreClient] = SetPx)
          => store'[<<"k">>] = [kind |-> "string", value |-> <<"a">>, valid_until |-> Some(now + PxMs)]
     /\ OnExpiring(GET)
          => responses'[StoreClient] =
               IF now <= entry.valid_until.v THEN <<RBulk(entry.value)>> ELSE <<RNull>>
     /\ OnExpiring(TYPE)
          => responses'[StoreClient] =
               IF now <= entry.valid_until.v THEN <<RString(TYPE_STRING)>> ELSE <<RString(TYPE_NONE)>>

LiveKeys ==
  {k \in Keys : /\ store[k] # Absent
                /\ \/ store[k].kind = "stream"
                   \/ ~store[k].valid_until.some
                   \/ now <= store[k].valid_until.v}

C14_Step ==
  Handles(KEYS) =>
    /\ Len(responses'[StoreClient]) = 1
    /\ responses'[StoreClient][1].t = "Array"
    /\ Len(responses'[StoreClient][1].a) = Cardinality(LiveKeys)
    /\ {responses'[StoreClient][1].a[i] : i \in 1..Len(responses'[StoreClient][1].a)}
         = {RBulk(k) : k \in LiveKeys}

\* C14: KEYS returns exactly the live keys: every stream key and every
\* string key that has not expired, and no key whose string entry has
\* expired.
C14_KeysAreLive == [][C14_Step]_vars

\* the range the rules give for the bounds of ReadRequests: `-` is the
\* least id, `+` the greatest, a bare n is (n, 0) as the lower bound and
\* (n, the greatest sequence number) as the upper bound
NotBelow(id, from) ==
  CASE from = <<"-">> -> TRUE
    [] from = <<"1">> -> ~Before(id, <<1, 0>>)
    [] from = <<"0", "-", "1">> -> ~Before(id, <<0, 1>>)

NotAbove(id, to) ==
  CASE to = <<"+">> -> TRUE
    [] to = <<"1">> -> id[1] <= 1
    [] to = <<"1", "-", "0">> -> ~Before(<<1, 0>>, id)

C15_Step ==
  (Handles(XRANGE) /\ records(store, parse_command(req'[StoreClient]).params[1]) # <<>>)
  => LET params == parse_command(req'[StoreClient]).params
         found == SelectSeq(records(store, params[1]),
                            LAMBDA e : NotBelow(e.id, params[2]) /\ NotAbove(e.id, params[3]))
     IN responses'[StoreClient] =
          <<RArray([i \in 1..Len(found) |->
                      RArray(<<RBulk(FormatNat(found[i].id[1]) \o <<"-">> \o FormatNat(found[i].id[2])),
                               encode_stream_entries(found[i].data)>>)])>>

\* C15: XRANGE k from to returns, in insertion order, the records whose id
\* is between the bounds, both included; `-` is the least id and `+` the
\* greatest; a bare n is (n, 0) as `from` and (n, the greatest sequence
\* number) as `to`, so that XRANGE k n n returns every record of time n.
C15_RangeBounds == [][C15_Step]_vars

\* the reply is one Error and the connection stays open
ErrorReply ==
  /\ Len(responses'[StoreClient]) = 1
  /\ responses'[StoreClient][1].t = "Error"
  /\ pc'[StoreClient] # "closed"

C18_Step ==
  (Handles(XREAD) /\ \E k \in Keys : req'[StoreClient] = Request(<<XREAD, STREAMS, k, <<"0", "-", "0">>>>)
                                       /\ store[k] = Absent)
  => ErrorReply

\* C18: an XREAD that names a key that does not exist is answered with an
\* error reply and the connection stays open.
C18_MissingStreamError == [][C18_Step]_vars

C19_Step ==
  LET params == parse_command(req'[StoreClient]).params
  IN (\/ (Handles(XADD) \/ Handles(XRANGE)) /\ store[params[1]].kind = "string"
      \/ Handles(XREAD) /\ store[params[2]].kind = "string"
      \/ Handles(GET) /\ store[params[1]].kind = "stream")
     => ErrorReply /\ store' = store

\* C19: XADD, XRANGE or XREAD on a key that holds a string, and GET on a
\* key that holds a stream, are answered with an error reply; the
\* connection stays open and the store is unchanged.
C19_WrongTypeError == [][C19_Step]_vars

----------------------------------------------------------------------------
\* The replica scenario's claims.

\* the step is a request of the replica's client
Asks == pc[ReplicaClient] = "idle" /\ todo'.asks < todo.asks

C16_Step ==
  /\ (Asks /\ parse_command(req'[ReplicaClient]).cmd \in {SET, XADD})
       => /\ rstore' = rstore
          /\ replicated_offset' = replicated_offset
          /\ responses'[ReplicaClient] = <<>>
          /\ pc'[ReplicaClient] = "closed"
  /\ \A r \in Links :
       rstore'[r] # rstore[r]
         => /\ ~Asks
            /\ down[r] # <<>>
            /\ down'[r] = Tail(down[r])
            /\ consumed'[r] = Append(consumed[r], Head(down[r]))

\* C16: on a replica, a SET or XADD received on a client connection is
\* rejected (the command is not run and the connection ends) and changes
\* neither the store nor replicated_offset; the replica's store changes only
\* in a step that reads a frame from the replication connection.
C16_ReplicaRejectsWrites == [][C16_Step]_vars

\* the replica holds k = a from the replication connection, and its client's
\* SET k b has been rejected
C16_Witness ==
  /\ rstore[WaitLink][<<"k">>] # Absent
  /\ rstore[WaitLink][<<"k">>].value = <<"a">>
  /\ replicated_offset[WaitLink] > 0
  /\ req[ReplicaClient] = Request(<<SET, <<"k">>, <<"b">>>>)
  /\ pc[ReplicaClient] = "closed"

----------------------------------------------------------------------------
\* The handshake scenario's claims.

IsPrefix(s, t) == Len(s) <= Len(t) /\ s = SubSeq(t, 1, Len(s))

\* what the replica sends and reads up to its PSYNC, in order
HandshakeOrder ==
  <<Sent(Request(<<PING>>)), Read(RString(PONG)),
    Sent(Request(<<REPLCONF, LISTENING_PORT, this_port>>)), Read(RString(OK)),
    Sent(Request(<<REPLCONF, CAPA, PSYNC2>>)), Read(RString(OK)),
    Sent(Request(<<PSYNC, <<"?">>, <<"-", "1">>>>))>>

\* what the master writes on the link, up to the snapshot
MasterAnswers ==
  <<RString(PONG), RString(OK), RString(OK),
    RString(FULLRESYNC \o <<" ">> \o master_replid \o <<" ", "0">>), empty_rdb>>

C17_Order ==
  \A r \in Links :
    /\ IsPrefix(hs[r], HandshakeOrder)
    /\ IsPrefix(written[r], MasterAnswers) \/ IsPrefix(MasterAnswers, written[r])
    /\ Len(written[r]) > 3 => hs[r] = HandshakeOrder
    /\ consumed[r] # <<>> => hs[r] = HandshakeOrder /\ IsPrefix(MasterAnswers, written[r])

C17_Step ==
  \A r \in Links :
    /\ consumed'[r] # consumed[r] => rpc[r] = "loop"
    /\ (rpc'[r] = "loop" /\ rpc[r] # "loop")
         => /\ hs[r] = HandshakeOrder
            /\ SubSeq(down[r], 1, 2) = SubSeq(MasterAnswers, 4, 5)
            /\ down'[r] = SubSeq(down[r], 3, Len(down[r]))

\* C17: the replica sends PING, REPLCONF listening-port, REPLCONF capa psync2
\* and PSYNC ? -1 in that order, each after it has read the expected reply
\* (PONG, OK, OK) to the one before; the master writes +PONG, +OK, +OK,
\* +FULLRESYNC <id> 0 and the snapshot in that order; the replica runs a
\* replicated frame only after it has read the FULLRESYNC and the snapshot.
C17_HandshakeOrder == []C17_Order /\ [][C17_Step]_vars

\* the handshake is complete and the replica has run a replicated frame
C17_Witness ==
  /\ hs[WaitLink] = HandshakeOrder
  /\ Len(written[WaitLink]) > Len(MasterAnswers)
  /\ consumed[WaitLink] # <<>>
  /\ rstore[WaitLink][<<"k">>] # Absent

----------------------------------------------------------------------------
\* The codec scenario's claim.

\* C20: a well-formed frame b is decoded, the value encoded again is b, the
\* decoder reports Len(b) bytes consumed and the encoder Len(b) bytes
\* written.
C20_RoundTrip ==
  /\ codec.step # "failed"
  /\ codec.step = "decoded" => codec.consumed = Len(codec.b)
  /\ codec.step = "encoded" => /\ codec.out = codec.b
                               /\ codec.consumed = Len(codec.b)
                               /\ codec.written = Len(codec.b)
----------------------------------------------------------------------------
\* The tags scenario's claims.

Mutating == {SET, XADD}

\* the step is a request of the master's client that handle_command accepted
Accepted == pc[StoreClient] = "idle" /\ todo'.sends < todo.sends /\ pc'[StoreClient] # "closed"

\* what RedisServer::handle_command makes of the replica client's request
Served(parsed) ==
  IF parsed.cmd = INFO
  THEN handle_info(rstore[WaitLink], parsed.params, FALSE, master_replid, rlog_bytes[WaitLink])
  ELSE handle_command(rstore[WaitLink], parsed.cmd, parsed.params, now)

C21_Table == \A cmd \in Tags : is_mutating(cmd) <=> cmd \in Mutating

C21_Step ==
  /\ Accepted
       => (pc'[StoreClient] = "append" <=> parse_command(req'[StoreClient]).cmd \in Mutating)
  /\ \A c \in Conns : pc'[c] = "append" => parse_command(req'[c]).cmd \in Mutating
  /\ log' # log
       => \E c \in Conns : /\ log' = Append(log, req[c])
                           /\ parse_command(req[c]).cmd \in Mutating
  /\ \A r \in Links :
       enq'[r] # enq[r]
         => \E c \in Conns : /\ enq'[r] = Append(enq[r], req[c])
                             /\ parse_command(req[c]).cmd \in Mutating
  /\ Asks
       => \A parsed \in {parse_command(req'[ReplicaClient])} :
            IF parsed.cmd \in Mutating
            THEN /\ pc'[ReplicaClient] = "closed"
                 /\ responses'[ReplicaClient] = <<>>
                 /\ rstore' = rstore
            ELSE \A served \in {Served(parsed)} :
                   /\ pc'[ReplicaClient] = "closed" <=> served.res # "ok"
                   /\ served.res = "ok" => responses'[ReplicaClient] \in served.replies

----------------------------------------------------------------------------
\* The registry scenario's claims.

\* the step is the end of send_replicas
Counts(c) == pc[c] = "bytes" /\ pc'[c] # "bytes"

C22_Step ==
  /\ \A c \in Clients :
       Counts(c) => log_bytes' = IF Len(replicas) > 0 THEN log_bytes + EncodedSize(req[c])
                                 ELSE log_bytes
  /\ (\A c \in Clients : ~Counts(c)) => log_bytes' = log_bytes

\* C22: send_replicas adds the frame's encoded size to log_bytes if and only
\* if at least one replica is left in the registry once the replicas whose
\* enqueue failed are removed, whatever the mix of succeeding and failing
\* replicas; no other step changes log_bytes.
C22_CountedIffReplicaRemains == [][C22_Step]_vars
----------------------------------------------------------------------------
\* The two-stream scenario's claims.

\* the notifier of c's blocked XREAD holds an event that ends the wait
Handed(c, ss) ==
  /\ pc[c] = "xread_wait"
  /\ is_acceptable(local[c].key_id_pairs, ss[local[c].listener])

C23_Step ==
  \A c \in Clients :
    Handed(c, slots)
      => /\ pc'[c] = "xread_wait" => is_acceptable(local'[c].key_id_pairs, slots'[local'[c].listener])
         /\ pc'[c] = "idle" => responses'[c] # <<RNull>>

\* C23: once a stream of a blocked XREAD over several keys has handed the
\* waiter a record with an id above that key's from_id, the XREAD is not
\* answered Null: no later event of a requested key with an id at or below
\* its from_id takes the record's event away before the waiter runs.
C23_WakeSurvivesLaterEvent == [][C23_Step]_vars
----------------------------------------------------------------------------
\* The PSYNC scenario's claims.

\* the last thing written on r's connection is the sync preface
PrefaceWritten(r) ==
  LET n == 2 + psync_n[r]
  IN /\ Len(written[r]) >= n
     /\ SubSeq(written[r], Len(written[r]) - n + 1, Len(written[r]) - n + 2)
          = sync_response(master_replid, <<>>)

C24_Step ==
  \A r \in Links :
    /\ (pc[r] = "psync_send" /\ pc'[r] # "psync_send") => pc'[r] = "register"
    /\ (pc[r] = "register" /\ pc'[r] # "register")
         => /\ PrefaceWritten(r)
            /\ replicas' = Append(replicas, [conn |-> r, offset |-> 0])
    /\ pc[r] \in {"psync_send", "register", "drain", "cmd_read"} => req'[r] = req[r]
    /\ (\E i \in 1..Len(replicas') : replicas'[i].conn = r)
         => valid_psync(parse_command(req'[r]).params)

C24_Once == \A r \in Links : Cardinality({i \in 1..Len(replicas) : replicas[i].conn = r}) <= 1

\* C24: every connection whose PSYNC is valid (? with -1, or the master's
\* replication id), with or without an earlier REPLCONF listening-port, is
\* added to the registry once the sync preface is written, exactly once and
\* with last_ack 0, and runs no further request from then on.
C24_PsyncRegisters == []C24_Once /\ [][C24_Step]_vars

\* the step is the loop of send_replicas over the registry
FansOut(c) == pc[c] = "fanout" /\ pc'[c] = "bytes"

\* the replicas of the registry whose session is alive, in the registry's order
Reachable == LET alive(replica) == SessionAlive(replica.conn) IN SelectSeq(replicas, alive)

C25_Step ==
  /\ \A c \in Clients :
       FansOut(c)
         => /\ replicas' = Reachable
            /\ \A r \in Links :
                 enq'[r] = IF \E i \in 1..Len(Reachable) : Reachable[i].conn = r
                           THEN Append(enq[r], req[c]) ELSE enq[r]
  /\ \A i \in 1..Len(replicas) :
       SessionAlive(replicas[i].conn)
         => \E j \in 1..Len(replicas') : replicas'[j].conn = replicas[i].conn

\* C25: after a fan-out the registry holds exactly the replicas whose enqueue
\* succeeded, in their previous order: a replica whose session has ended is
\* removed by the first fan-out after that, and no step removes a replica
\* whose session is alive.
C25_RegistryAfterFanOut == [][C25_Step]_vars

\* a fan-out has just removed r1, whose session had ended, and kept r2
C25_Witness ==
  /\ pc[WaitClient] = "bytes"
  /\ local[WaitClient].failed = 1
  /\ pc["r1"] = "closed"
  /\ replicas = <<[conn |-> "r2", offset |-> 0]>>
  /\ Len(enq["r2"]) = 2 /\ Len(enq["r1"]) = 1
----------------------------------------------------------------------------
\* The WAIT scenario's later claims.

Max(a, b) == IF a >= b THEN a ELSE b

\* the step is request_ack taking a replica's reply from its channel
Receives(c) == pc[c] = "wait_poll" /\ rx[c] # <<>> /\ rx'[c] = Tail(rx[c])

C26_Step ==
  /\ \A c \in Clients :
       Receives(c)
         => LET reply == Head(rx[c])
            IN /\ Len(replicas') = Len(replicas)
               /\ replicas'[reply.replica_index].offset
                    = Max(replicas[reply.replica_index].offset, reply.off)
  /\ \A i \in 1..Len(replicas), j \in 1..Len(replicas') :
       replicas'[j].conn = replicas[i].conn => replicas'[j].offset >= replicas[i].offset

\* C26: when request_ack takes a replica's reply to a GETACK, the replica's
\* last_ack becomes the greater of its last_ack and the reported offset, also
\* when the reported offset is below the master offset; no step lowers a
\* replica's last_ack.
C26_LastAckIsMax == [][C26_Step]_vars

\* the waiter of the listener is inside block_xread
Listening(listener) == \E c \in Clients : pc[c] = "xread_wait" /\ local[c].listener = listener

\* the step is c's XADD request being handled
Adds(c) == pc[c] = "idle" /\ pc'[c] # "idle" /\ parse_command(req'[c]).cmd = XADD

listeners_of(st, key) == IF st[key] # Absent /\ st[key].kind = "stream" THEN st[key].listeners ELSE <<>>

C27_Step ==
  \A c \in Clients :
    Adds(c)
      => LET key == parse_command(req'[c]).params[1]
             old == listeners_of(store, key)
         IN IF Len(records(store', key)) > Len(records(store, key))
            THEN /\ listeners_of(store', key) = SelectSeq(old, Listening)
                 /\ \A l \in 1..Len(slots) :
                      slots'[l] = IF Listening(l) /\ \E i \in 1..Len(old) : old[i] = l
                                  THEN Some(StreamEvent(key, top_item(store', key).v))
                                  ELSE slots[l]
            ELSE /\ slots' = slots
                 /\ listeners_of(store', key) = old

C28_MissingKeyIsNotFound ==
  (codec.step = "listened" /\ \E i \in DOMAIN codec.keys : codec.st[codec.keys[i]] = Absent)
    => (~codec.ok /\ \E i \in DOMAIN codec.keys : codec.err = ERR_NOT_FOUND(codec.keys[i]))
\* C29: after any error on the replica's master session (the connection is
\* refused, the peer closes, a frame is malformed or is not an array, a
\* handshake reply is not the expected one) the replica eventually starts a
\* new session that begins with PING, and replicated_offset is 0 when a
\* session's PSYNC completes.
SessionError(r) == rpc[r] \in {"failed", "panicked"}
C29_Reset ==
  \A r \in Links : rpc[r] = "psync_sent" /\ rpc'[r] = "loop" => replicated_offset'[r] = 0
C29_Restarted == \A r \in {WaitLink} : SessionError(r) ~> (rpc[r] = "ping_sent")
C29_NewSessionAfterError == C29_Restarted /\ [][C29_Reset]_vars

\* the same for the errors that are returned as an Err
C29_ErrRestarted == \A r \in {WaitLink} : (rpc[r] = "failed") ~> (rpc[r] = "ping_sent")
C29_OffsetSeen ==
  \E r \in Links : rpc[r] = "psync_sent" /\ replicated_offset[r] > 0 /\ Len(down[r]) = 2 /\ Decoded(r)
\* the number of times the frame occurs in the sequence
Occurs(frame, frames) == Cardinality({i \in DOMAIN frames : frames[i] = frame})

\* every frame of the first n of the log has at least been written to the
\* replica's connection (a frame the replica has read was written before)
ReceivedLog(r, n) ==
  \A i \in 1..n : Occurs(log[i], written[r]) >= Occurs(log[i], SubSeq(log, 1, n))

\* the replicas that the step adds to the count of c's WAIT
NewlyCounted(c) ==
  IF pc[c] \in {"wait_lock", "wait_poll"} /\ Len(local'[c].counted) > Len(local[c].counted)
  THEN {replicas[local'[c].counted[j]].conn : j \in (Len(local[c].counted) + 1)..Len(local'[c].counted)}
  ELSE {}

C30_Step == \A c \in Clients : \A r \in NewlyCounted(c) : ReceivedLog(r, local[c].log_len)

\* C30: when a WAIT counts a replica, in its first pass or on a reply to a
\* GETACK, every frame that was in the replication log when the WAIT was read
\* has been sent to that replica.
C30_CountedHasReceivedLog == [][C30_Step]_vars
----------------------------------------------------------------------------
\* The claims on the pairing of GETACK and ACK.

\* the number of GETACK frames among the frames
Getacks(frames) == Cardinality({i \in DOMAIN frames : frames[i] = getack})

\* the step is the session of link r reading a reply to its current Command
ReadsReply(r) == pc[r] = "cmd_read" /\ up[r] # <<>> /\ up'[r] = Tail(up[r])

\* the replies that the replica has sent on link r and the master has read
RepliesRead(r) == Len(acks[r]) - Len(up[r])

\* C31: the reply that the master reads after writing a GETACK to a replica
\* is the replica's answer to that GETACK: the n-th GETACK written on the link
\* is paired with the n-th ACK the replica has sent.
C31_Step == \A r \in Links : ReadsReply(r) => RepliesRead(r) + 1 = Getacks(written[r])
C31_ReplyAnswersSameGetack == [][C31_Step]_vars
----------------------------------------------------------------------------
\* The claims on the order of concurrent writes.

\* every request has been handled to its end, and the replica has read
\* everything that was enqueued for it
Drained(r) ==
  /\ \A c \in Clients : pc[c] = "idle"
  /\ outbox[r] = <<>>
  /\ down[r] = <<>>

\* C32: when two clients SET the same key concurrently, the writes reach the
\* log and the replicas in the order in which they were applied to the
\* master's store: once the outbox is drained and read, the replica holds the
\* same value as the master.
C32_SameFinalValue ==
  (Drained(WaitLink) /\ rpc[WaitLink] = "loop") => rstore[WaitLink][<<"k">>] = store[<<"k">>]
\* the two values hold the same string, or the same records with the same ids
SameContent(a, b) ==
  IF a = Absent \/ b = Absent THEN a = b
  ELSE IF a.kind # b.kind THEN FALSE
  ELSE IF a.kind = "string" THEN a.value = b.value
  ELSE a.entries = b.entries

\* C33: for a replica attached before any mutation and never disconnected,
\* once its outbox is drained and read the replica's store holds the keys, the
\* string values and the stream records (with their ids) of the master's.
C33_ReplicaConverges ==
  (Drained(WaitLink) /\ rpc[WaitLink] = "loop")
    => \A key \in Keys : SameContent(rstore[WaitLink][key], store[key])
\* the replica has read the whole replay of its PSYNC
Replayed(r) ==
  /\ rpc[r] = "loop"
  /\ pc[r] = "drain"
  /\ down[r] = <<>>
  /\ Len(consumed[r]) = Len(log)

\* C34: after a replica has connected again and the master has replayed its
\* whole log onto the store the replica had, the replica's store holds what
\* the master's holds: no record is there twice.
C34_ReplayIsIdempotent ==
  Replayed(WaitLink) => \A key \in Keys : SameContent(rstore[WaitLink][key], store[key])
----------------------------------------------------------------------------
\* The claims on rejected XADD requests.

\* the responses of c's request are an error reply
AnsweredWithError(c) == responses[c] # <<>> /\ responses[c][1].t = "Error"

\* the step is a step of send_replicas for c's request
Replicates(c) == pc[c] \in {"append", "fanout", "bytes"} /\ pc'[c] # pc[c]

\* C35: a mutating request that is answered with an error reply is not
\* appended to the replication log, does not change log_bytes and is not
\* enqueued for any replica.
C35_Step ==
  \A c \in Clients :
    (Replicates(c) /\ AnsweredWithError(c)) => (log' = log /\ log_bytes' = log_bytes /\ enq' = enq)
C35_RejectedNotReplicated == [][C35_Step]_vars
\* C36: an XADD on a key that does not exist and that is answered with an
\* error (an id that is not above 0-0, an id that does not parse) leaves the
\* store as it was: the key is still absent.
C36_Step ==
  \A c \in Clients :
    (/\ Adds(c)
     /\ store[parse_command(req'[c]).params[1]] = Absent
     /\ responses'[c] # <<>> /\ responses'[c][1].t = "Error")
      => store' = store
C36_FailedXaddLeavesStore == [][C36_Step]_vars

\* the locks a thread is asking for at its step
Wants(t) ==
  CASE AtStep(t).k \in {"temp", "guard"} -> {[l |-> AtStep(t).l, m |-> AtStep(t).m]}
    [] AtStep(t).k = "notify" -> {[l |-> w, m |-> "w"] : w \in Unnotified(t)}
    [] AtStep(t).k = "wait" /\ lk[t].asleep -> {[l |-> t, m |-> "w"]}
    [] OTHER -> {}
\* thread t cannot go on before thread u drops a guard
WaitsFor(t, u) ==
  \E want \in Wants(t) : Unavailable(want.l, want.m) /\ \E h \in held[want.l] : h.t = u
\* the threads of a set that wait for a thread of the set, and so on: what
\* is left is the largest set of threads that wait for each other only
RECURSIVE Stuck(_)
Stuck(among) ==
  LET still == {t \in among : \E u \in among : WaitsFor(t, u)}
  IN  IF still = among THEN among ELSE Stuck(still)
Deadlocked == Stuck({t \in Threads : Wants(t) # {}}) # {}

\* C37: in no reachable state is there a set of threads, running fan-out,
\* WAIT, PSYNC registration, INFO, an XADD publisher or blocked XREAD
\* waiters, each of which waits for a lock (registry, log, store, a
\* notifier's mutex) whose guard another thread of the set keeps alive.
C37_NoDeadlock == ~Deadlocked
\* the locks are contended: the fan-out waits for the registry while WAIT
\* polls with its guard alive, or the publisher, the store's guard alive,
\* waits for the mutex of a waiter's slot
C37_Contended ==
  /\ WaitsFor("xadd", "wait") \/ \E w \in Waiters : WaitsFor("xadd", w)
  /\ \E w \in Waiters : WaitsFor(w, "xadd")

\* C38: while a WAIT is in request_ack's polling loop no other thread waits
\* for a guard of that WAIT's thread: the fan-out of a mutating command and
\* the registration of a new replica can take the registry.
C38_WaitPollsUnlocked ==
  \A t \in Threads : AtStep(t).k = "poll" => \A u \in Threads : ~WaitsFor(u, t)

\* the step after which handle_message sends c's responses: send_replicas
\* has returned for a SET or an XADD
Replied(c) ==
  pc[c] = "bytes" /\ pc'[c] = "idle" /\ parse_command(req[c]).cmd \in {SET, XADD}

\* C39: when the reply to a SET or an XADD is sent, the request's frame is in
\* the replication log and has been enqueued for every replica in the
\* registry.
C39_Step ==
  \A c \in Clients :
    Replied(c) =>
      /\ Occurs(req[c], log') > 0
      /\ \A i \in DOMAIN replicas' : Occurs(req[c], enq'[replicas'[i].conn]) > 0
C40_SetWithoutOptions ==
  codec.step = "set" =>
    /\ Len(codec.params) = 2 =>
         /\ codec.res = "ok"
         /\ codec.params[1] \in Keys => store[codec.params[1]] = from_string(codec.params[2], None)
    /\ (Len(codec.params) = 3 /\ to_uppercase(codec.params[3]) = PX) =>
         (codec.res = "err" /\ store = codec.st)

====
